---------------------------- MODULE Spec2Model ----------------------------
(***************************************************************************)
(* Model of the spreadsheet-backed document store of the ERP backend:      *)
(*   backend/app/services/sheets_db_service.py  (SheetsDBService and the   *)
(*   rate-limit wrapper _retry_on_rate_limit)                              *)
(*   backend/app/models/sheet_document.py       (SheetDocument.save/...)   *)
(*                                                                         *)
(* Python dicts are functions whose DOMAIN is the set of keys present;     *)
(* Python lists are sequences.  A cached row is a function from column     *)
(* name to cell text.  The remote spreadsheet is a function from tab name  *)
(* to a grid (a sequence of rows, each a sequence of cell texts).          *)
(***************************************************************************)
EXTENDS Integers, Sequences, FiniteSets, TLC

VARIABLES
    db,         \* the SheetsDBService singleton: demo_mode, _cache, _headers, _row_map
    sheet,      \* the remote spreadsheet: tab name -> grid
    off,        \* a second SheetsDBService in demo mode fed the same calls (SpecEquiv)
    uuid_n,     \* number of uuid4() identifiers drawn so far
    last,       \* the last call made on db: its name and the identifier it was about
    r_script,   \* _retry_on_rate_limit: what func() does on its 1st, 2nd, ... call
    rt,         \* _retry_on_rate_limit: loop state of the call in progress
    boot,       \* initialize(): its position, the environment it runs in, what it found
    hs,         \* the request handlers (coroutines on the event loop) and their positions
    held,       \* the object a caller got back from its last read
    doc         \* the document layer: the marshalling, filter or cursor call in progress

vars == <<db, sheet, off, uuid_n, last, r_script, rt, boot, hs, held, doc>>

-----------------------------------------------------------------------------
(* Bounds of the model *)

MaxRows == 2        \* rows a cached table may hold before inserts stop
MaxSheetRows == 4   \* grid rows (header included) before appends stop
MaxGen == 1         \* uuid4() identifiers drawn before id-less inserts stop
MaxBatch == 2       \* rows in one insert_many call

-----------------------------------------------------------------------------
(* Python dict and list helpers *)

Get(d, k, dflt) == IF k \in DOMAIN d THEN d[k] ELSE dflt

Put(d, k, v) == [x \in DOMAIN d \cup {k} |-> IF x = k THEN v ELSE d[x]]

Pop(d, k) == [x \in DOMAIN d \ {k} |-> d[x]]

EmptyDict == [x \in {} |-> 0]

Range(s) == {s[i] : i \in 1..Len(s)}

SumSeq(s) == LET RECURSIVE S(_)
                 S(i) == IF i = 0 THEN 0 ELSE s[i] + S(i - 1)
             IN S(Len(s))

-----------------------------------------------------------------------------
(* _retry_on_rate_limit(func, max_retries=3)                                *)
(*                                                                          *)
(* func() is modelled by the response the remote gives to each call:        *)
(*   "ok"   the call returns a value                                        *)
(*   "429"  HttpError with resp.status == 429                               *)
(*   "http" HttpError with any other status                                 *)
(*   "exc"  an exception that is not an HttpError                           *)

max_retries == 3

Responses == {"ok", "429", "http", "exc"}

Scripts == [1..(max_retries + 2) -> Responses]

IsHttpError(resp) == resp \in {"429", "http"}

RetryStart == [attempt |-> 0, calls |-> 0, sleeps |-> <<>>, wait |-> 0,
               status |-> "calling", out |-> <<"none", 0>>]

\* slip: the last attempt is retried too
RetryAgain_Inclusive(resp, attempt) == resp = "429" /\ attempt <= max_retries

\* slip: every HttpError is retried, whatever its status
RetryAgain_AnyStatus(resp, attempt) == attempt < max_retries

\* the guard of line 42: retry only a 429 that is not the last attempt
RetryAgain(resp, attempt) == resp = "429" /\ attempt < max_retries

\* the wait of line 43
BackoffWait(attempt) == 10 * (attempt + 1)

\* one pass through the try/except of the loop body, func() answering resp
RetryCallStep(st, resp) ==
    IF resp = "ok"
    THEN [st EXCEPT !.calls = @ + 1, !.status = "returned",
                    !.out = <<"value", st.attempt>>]
    ELSE IF IsHttpError(resp) /\ RetryAgain(resp, st.attempt)
    THEN [st EXCEPT !.calls = @ + 1, !.status = "sleeping",
                    !.wait = BackoffWait(st.attempt)]
    ELSE [st EXCEPT !.calls = @ + 1, !.status = "raised",
                    !.out = <<resp, st.attempt>>]

\* time.sleep(wait) returns and the for loop advances; a loop that runs out
\* falls off the end of the function, which returns None
RetrySleepStep(st) ==
    IF st.attempt + 1 < max_retries + 1
    THEN [st EXCEPT !.sleeps = Append(@, st.wait), !.wait = 0,
                    !.attempt = @ + 1, !.status = "calling"]
    ELSE [st EXCEPT !.sleeps = Append(@, st.wait), !.wait = 0,
                    !.attempt = @ + 1, !.status = "returned",
                    !.out = <<"None", st.attempt>>]

RetryDone(st) == st.status \in {"returned", "raised"}

\* the whole call, run to its end against a script of responses
RECURSIVE RetryRun(_, _)
RetryRun(st, script) ==
    IF RetryDone(st) THEN st
    ELSE IF st.status = "sleeping" THEN RetryRun(RetrySleepStep(st), script)
    ELSE RetryRun(RetryCallStep(st, script[st.calls + 1]), script)

\* the wrapper as a step machine
RetryCall ==
    /\ rt.status = "calling"
    /\ rt' = RetryCallStep(rt, r_script[rt.calls + 1])
    /\ UNCHANGED <<db, sheet, off, uuid_n, last, r_script, boot, hs, held, doc>>

RetrySleep ==
    /\ rt.status = "sleeping"
    /\ rt' = RetrySleepStep(rt)
    /\ UNCHANGED <<db, sheet, off, uuid_n, last, r_script, boot, hs, held, doc>>

RetryNext == RetryCall \/ RetrySleep

-----------------------------------------------------------------------------
(* The remote spreadsheet (Google Sheets values API), as the service uses it *)

Tabs == {"_t"}

HeaderList == <<"_id", "v", "w">>     \* SheetDocument._get_headers of the model class

IsBlank(row) == \A j \in 1..Len(row) : row[j] = ""

RECURSIVE LastNonBlank(_)
LastNonBlank(grid) ==
    IF grid = <<>> THEN 0
    ELSE IF IsBlank(grid[Len(grid)]) THEN LastNonBlank(SubSeq(grid, 1, Len(grid) - 1))
    ELSE Len(grid)

\* a grid is kept up to its last non-blank row (what values.get can see)
TrimGrid(grid) == SubSeq(grid, 1, LastNonBlank(grid))

BlankRow(n) == [j \in 1..n |-> ""]

\* values.append(range='tab'!A:A, INSERT_ROWS): the rows go after the last row
\* that holds data
SheetAppend(grid, rows) == TrimGrid(grid \o rows)

\* values.update(range='tab'!A{row_num}, body one row): overwrite that row
SheetUpdate(grid, row_num, values) ==
    LET n == IF row_num > Len(grid) THEN row_num ELSE Len(grid)
    IN TrimGrid([i \in 1..n |->
                    IF i = row_num THEN values
                    ELSE IF i <= Len(grid) THEN grid[i]
                    ELSE BlankRow(Len(values))])

RECURSIVE TrimRow(_)
TrimRow(row) ==
    IF row = <<>> THEN <<>>
    ELSE IF row[Len(row)] = "" THEN TrimRow(SubSeq(row, 1, Len(row) - 1))
    ELSE row

\* values.get(range='tab'!A:ZZ): rows without their trailing empty cells
SheetValues(grid) == [i \in 1..Len(grid) |-> TrimRow(grid[i])]

\* how a wrapped remote call ends: "returned" or "raised"
RetryOutcomes == {RetryRun(RetryStart, s).status : s \in Scripts}

-----------------------------------------------------------------------------
(* SheetsDBService *)

NewService(demo) == [demo_mode |-> demo, cache |-> EmptyDict,
                     headers |-> EmptyDict, row_map |-> EmptyDict]

RowId(row) == Get(row, "_id", "")

Rows(svc, tab) == Get(svc.cache, tab, <<>>)

uuid4(n) == "g" \o ToString(n)

\* [str(row_data.get(h, '')) for h in headers]
RowValues(row_data, hdrs) == [j \in 1..Len(hdrs) |-> Get(row_data, hdrs[j], "")]

\* row_dict[header] = row[j] if j < len(row) else '' , for each header in turn
RowDict(hdrs, row) ==
    [h \in Range(hdrs) |->
        LET j == CHOOSE k \in 1..Len(hdrs) :
                    /\ hdrs[k] = h
                    /\ \A m \in 1..Len(hdrs) : hdrs[m] = h => m <= k
        IN IF j <= Len(row) THEN row[j] ELSE ""]

\* slip: the rows are numbered from the first data row (enumerate without
\* start=2 counted from 1), not from their place in the sheet
RECURSIVE LoadRows_DataIndex(_, _, _, _, _)
LoadRows_DataIndex(hdrs, rows, i, recs, rmap) ==
    IF i > Len(rows) THEN [recs |-> recs, rmap |-> rmap]
    ELSE LET row_dict == RowDict(hdrs, rows[i])
             doc_id == RowId(row_dict)
         IN LoadRows_DataIndex(hdrs, rows, i + 1, Append(recs, row_dict),
                     IF doc_id # "" THEN Put(rmap, doc_id, i - 1) ELSE rmap)

\* the loop of _load_tab over rows[1:], i the sheet row number
RECURSIVE LoadRows(_, _, _, _, _)
LoadRows(hdrs, rows, i, recs, rmap) ==
    IF i > Len(rows) THEN [recs |-> recs, rmap |-> rmap]
    ELSE LET row_dict == RowDict(hdrs, rows[i])
             doc_id == RowId(row_dict)
         IN LoadRows(hdrs, rows, i + 1, Append(recs, row_dict),
                     IF doc_id # "" THEN Put(rmap, doc_id, i) ELSE rmap)

SetTab(svc, tab, recs, hdrs, rmap) ==
    [svc EXCEPT !.cache = Put(@, tab, recs),
                !.headers = Put(@, tab, hdrs),
                !.row_map = Put(@, tab, rmap)]

\* _load_tab; resp is what the unwrapped values.get call does: "ok" (answered
\* from the sheet, 400 when the tab does not exist) or any other failure
_load_tab(svc, sh, tab, resp) ==
    IF svc.demo_mode \/ resp # "ok"
    THEN [svc |-> svc, sheet |-> sh, raised |-> TRUE]
    ELSE IF tab \notin DOMAIN sh
    THEN [svc |-> SetTab(svc, tab, <<>>, <<>>, EmptyDict), sheet |-> sh, raised |-> FALSE]
    ELSE LET rows == SheetValues(sh[tab])
         IN IF rows = <<>>
            THEN [svc |-> SetTab(svc, tab, <<>>, <<>>, EmptyDict), sheet |-> sh,
                  raised |-> FALSE]
            ELSE LET l == LoadRows(rows[1], rows, 2, <<>>, EmptyDict)
                 IN [svc |-> SetTab(svc, tab, l.recs, rows[1], l.rmap), sheet |-> sh,
                     raised |-> FALSE]

\* slip: no test for a table that is already there (neither `not in
\* self._cache` in demo mode nor the early return on non-empty headers)
ensure_tab_NoGuard(svc, sh, tab, hdrs, oc1, oc2) ==
    IF svc.demo_mode
    THEN [svc |-> SetTab(svc, tab, <<>>, hdrs, EmptyDict), sheet |-> sh, raised |-> FALSE]
    ELSE IF oc1 # "returned"
    THEN [svc |-> svc, sheet |-> sh, raised |-> TRUE]
    ELSE LET sh1 == IF tab \in DOMAIN sh THEN sh ELSE Put(sh, tab, <<>>)
             sh2 == IF oc2 = "returned"
                    THEN Put(sh1, tab, SheetUpdate(sh1[tab], 1, hdrs)) ELSE sh1
             svc1 == [svc EXCEPT !.headers = Put(@, tab, hdrs)]
             svc2 == IF tab \notin DOMAIN svc1.cache
                     THEN [svc1 EXCEPT !.cache = Put(@, tab, <<>>),
                                       !.row_map = Put(@, tab, EmptyDict)]
                     ELSE svc1
         IN [svc |-> svc2, sheet |-> sh2, raised |-> FALSE]

\* ensure_tab; oc1, oc2 are the outcomes of the wrapped addSheet and header write
ensure_tab(svc, sh, tab, hdrs, oc1, oc2) ==
    IF svc.demo_mode
    THEN [svc |-> IF tab \notin DOMAIN svc.cache
                  THEN SetTab(svc, tab, <<>>, hdrs, EmptyDict) ELSE svc,
          sheet |-> sh, raised |-> FALSE]
    ELSE IF tab \in DOMAIN svc.headers /\ svc.headers[tab] # <<>>
    THEN [svc |-> svc, sheet |-> sh, raised |-> FALSE]
    ELSE IF oc1 # "returned"
    THEN [svc |-> svc, sheet |-> sh, raised |-> TRUE]
    ELSE LET sh1 == IF tab \in DOMAIN sh THEN sh ELSE Put(sh, tab, <<>>)
             sh2 == IF oc2 = "returned"
                    THEN Put(sh1, tab, SheetUpdate(sh1[tab], 1, hdrs)) ELSE sh1
             svc1 == [svc EXCEPT !.headers = Put(@, tab, hdrs)]
             svc2 == IF tab \notin DOMAIN svc1.cache
                     THEN [svc1 EXCEPT !.cache = Put(@, tab, <<>>),
                                       !.row_map = Put(@, tab, EmptyDict)]
                     ELSE svc1
         IN [svc |-> svc2, sheet |-> sh2, raised |-> FALSE]

(* read operations *)

\* a filter_fn is passed as the comparison it makes on a row: the column, "eq"
\* or "ne", and the text compared with; Call applies it to a row
Filter(field, op, value) == [field |-> field, op |-> op, value |-> value]

Call(filter_fn, row) ==
    IF filter_fn.op = "eq"
    THEN Get(row, filter_fn.field, "") = filter_fn.value
    ELSE Get(row, filter_fn.field, "") # filter_fn.value

find(svc, tab, filter_fn) ==
    SelectSeq(Rows(svc, tab), LAMBDA r : Call(filter_fn, r))

find_all(svc, tab) == Rows(svc, tab)

None == [none |-> TRUE]

RECURSIVE FirstIndex(_, _, _)
FirstIndex(rows, doc_id, i) ==
    IF i > Len(rows) THEN 0
    ELSE IF RowId(rows[i]) = doc_id THEN i
    ELSE FirstIndex(rows, doc_id, i + 1)

find_one(svc, tab, filter_fn) ==
    LET m == SelectSeq(Rows(svc, tab), LAMBDA r : Call(filter_fn, r))
    IN IF m = <<>> THEN None ELSE m[1]

get_by_id(svc, tab, doc_id) ==
    LET i == FirstIndex(Rows(svc, tab), doc_id, 1)
    IN IF i = 0 THEN None ELSE Rows(svc, tab)[i]

count(svc, tab, filter_fn) ==
    Len(SelectSeq(Rows(svc, tab), LAMBDA r : Call(filter_fn, r)))

count_all(svc, tab) == Len(Rows(svc, tab))

(* write operations *)

\* slip: only an absent key draws an identifier, an empty one is kept
WithId_AbsentOnly(row_data, n) ==
    IF "_id" \notin DOMAIN row_data
    THEN Put(row_data, "_id", uuid4(n + 1)) ELSE row_data

\* lines 289-290 / 328-329: generate _id if missing
WithId(row_data, n) ==
    IF "_id" \notin DOMAIN row_data \/ row_data["_id"] = ""
    THEN Put(row_data, "_id", uuid4(n + 1)) ELSE row_data

NeedsId(row_data) == "_id" \notin DOMAIN row_data \/ row_data["_id"] = ""

\* lines 293-297 / 331-335: create the table's list if missing, append the row
AppendRow(svc, tab, rd) ==
    LET s1 == IF tab \notin DOMAIN svc.cache
              THEN [svc EXCEPT !.cache = Put(@, tab, <<>>),
                               !.row_map = Put(@, tab, EmptyDict)]
              ELSE svc
    IN [s1 EXCEPT !.cache = Put(@, tab, Append(s1.cache[tab], rd))]

\* line 298 / 336: next_row = len(self._cache[tab_name]) + 1
NextRow(svc, tab) == Len(svc.cache[tab]) + 1

\* line 299 / 337: self._row_map.setdefault(tab_name, {})[row_data['_id']] = next_row
SetRowNum(svc, tab, doc_id, next_row) ==
    [svc EXCEPT !.row_map = Put(@, tab, Put(Get(svc.row_map, tab, EmptyDict),
                                            doc_id, next_row))]

\* lines 293-299 / 331-337: append to the cache and record the row number
CacheAppend(svc, tab, rd) ==
    LET s1 == AppendRow(svc, tab, rd)
    IN SetRowNum(s1, tab, RowId(rd), NextRow(s1, tab))

\* a wrapped remote write inside try/except Exception: applied only when the
\* wrapper returned and the API accepts the range (the tab exists)
RemoteApplied(sh, tab, oc) == oc = "returned" /\ tab \in DOMAIN sh

\* slip: the cache append is undone when the remote append was sent and failed
insert_RollsBack(svc, sh, tab, row_data, n, oc) ==
    LET rd == WithId(row_data, n)
        svc1 == CacheAppend(svc, tab, rd)
        hdrs == Get(svc1.headers, tab, <<>>)
        sent == ~svc1.demo_mode /\ hdrs # <<>>
    IN [svc |-> IF sent /\ ~RemoteApplied(sh, tab, oc) THEN svc ELSE svc1,
        sheet |-> IF sent /\ RemoteApplied(sh, tab, oc)
                  THEN Put(sh, tab, SheetAppend(sh[tab], <<RowValues(rd, hdrs)>>))
                  ELSE sh,
        raised |-> FALSE, ret |-> rd,
        n |-> IF NeedsId(row_data) THEN n + 1 ELSE n]

insert(svc, sh, tab, row_data, n, oc) ==
    LET rd == WithId(row_data, n)
        svc1 == CacheAppend(svc, tab, rd)
        hdrs == Get(svc1.headers, tab, <<>>)
        sh1 == IF ~svc1.demo_mode /\ hdrs # <<>> /\ RemoteApplied(sh, tab, oc)
               THEN Put(sh, tab, SheetAppend(sh[tab], <<RowValues(rd, hdrs)>>))
               ELSE sh
    IN [svc |-> svc1, sheet |-> sh1, raised |-> FALSE, ret |-> rd,
        n |-> IF NeedsId(row_data) THEN n + 1 ELSE n]

\* the loop of insert_many over rows
RECURSIVE InsertManyLoop(_, _, _, _, _, _, _)
InsertManyLoop(svc, tab, rows, i, n, hdrs, acc) ==
    IF i > Len(rows) THEN [svc |-> svc, n |-> n, sheet_rows |-> acc.sheet_rows,
                           ret |-> acc.ret]
    ELSE LET rd == WithId(rows[i], n)
         IN InsertManyLoop(CacheAppend(svc, tab, rd), tab, rows, i + 1,
                IF NeedsId(rows[i]) THEN n + 1 ELSE n, hdrs,
                [sheet_rows |-> IF hdrs # <<>>
                                THEN Append(acc.sheet_rows, RowValues(rd, hdrs))
                                ELSE acc.sheet_rows,
                 ret |-> Append(acc.ret, rd)])

\* appends: the bodies of the values.append calls the call issues
insert_many(svc, sh, tab, rows, n, oc) ==
    IF rows = <<>>
    THEN [svc |-> svc, sheet |-> sh, raised |-> FALSE, ret |-> <<>>, n |-> n,
          appends |-> <<>>]
    ELSE LET hdrs == Get(svc.headers, tab, <<>>)
             l == InsertManyLoop(svc, tab, rows, 1, n, hdrs,
                                 [sheet_rows |-> <<>>, ret |-> <<>>])
             sh1 == IF ~svc.demo_mode /\ l.sheet_rows # <<>> /\ RemoteApplied(sh, tab, oc)
                    THEN Put(sh, tab, SheetAppend(sh[tab], l.sheet_rows))
                    ELSE sh
         IN [svc |-> l.svc, sheet |-> sh1, raised |-> FALSE, ret |-> l.ret, n |-> l.n,
             appends |-> IF ~svc.demo_mode /\ l.sheet_rows # <<>>
                         THEN <<l.sheet_rows>> ELSE <<>>]

\* slip: the matching row is removed and the new row appended at the end
CacheReplace_MovesToEnd(svc, tab, doc_id, row_data) ==
    LET rows == Rows(svc, tab)
        i == FirstIndex(rows, doc_id, 1)
    IN IF i = 0 THEN svc
       ELSE [svc EXCEPT !.cache = Put(@, tab,
                Append(SubSeq(rows, 1, i - 1) \o SubSeq(rows, i + 1, Len(rows)),
                       row_data))]

\* lines 359-363: replace the first cached row whose _id is doc_id
CacheReplace(svc, tab, doc_id, row_data) ==
    LET rows == Rows(svc, tab)
        i == FirstIndex(rows, doc_id, 1)
    IN IF i = 0 THEN svc
       ELSE [svc EXCEPT !.cache = Put(@, tab, [rows EXCEPT ![i] = row_data])]

\* self._row_map.get(tab_name, {}).get(doc_id), None as 0
RowNum(svc, tab, doc_id) == Get(Get(svc.row_map, tab, EmptyDict), doc_id, 0)

update(svc, sh, tab, doc_id, row_data, oc) ==
    LET svc1 == CacheReplace(svc, tab, doc_id, row_data)
        row_num == RowNum(svc, tab, doc_id)
        hdrs == Get(svc.headers, tab, <<>>)
        sh1 == IF ~svc.demo_mode /\ row_num # 0 /\ hdrs # <<>> /\ RemoteApplied(sh, tab, oc)
               THEN Put(sh, tab, SheetUpdate(sh[tab], row_num, RowValues(row_data, hdrs)))
               ELSE sh
    IN [svc |-> svc1, sheet |-> sh1, raised |-> FALSE]

\* slip: only the first matching row is removed (list.remove)
CacheRemove_FirstOnly(svc, tab, doc_id) ==
    LET rows == Rows(svc, tab)
        i == FirstIndex(rows, doc_id, 1)
    IN [svc EXCEPT !.cache = Put(@, tab,
            IF i = 0 THEN rows
            ELSE SubSeq(rows, 1, i - 1) \o SubSeq(rows, i + 1, Len(rows)))]

\* line 385: keep the rows whose _id differs
CacheRemove(svc, tab, doc_id) ==
    LET Keep(r) == RowId(r) # doc_id
    IN [svc EXCEPT !.cache = Put(@, tab, SelectSeq(Rows(svc, tab), Keep))]

\* line 405: self._row_map.get(tab_name, {}).pop(doc_id, None)
RowMapPop(svc, tab, doc_id) ==
    IF tab \in DOMAIN svc.row_map
    THEN [svc EXCEPT !.row_map = Put(@, tab, Pop(svc.row_map[tab], doc_id))]
    ELSE svc

\* slip: the cached row is dropped only once the remote row has been blanked
delete_AfterRemote(svc, sh, tab, doc_id, oc) ==
    LET row_num == RowNum(svc, tab, doc_id)
        hdrs == Get(svc.headers, tab, <<>>)
        sent == ~svc.demo_mode /\ row_num # 0 /\ hdrs # <<>>
    IN IF sent /\ ~RemoteApplied(sh, tab, oc)
       THEN [svc |-> svc, sheet |-> sh, raised |-> FALSE]
       ELSE [svc |-> RowMapPop(CacheRemove(svc, tab, doc_id), tab, doc_id),
             sheet |-> IF sent
                       THEN Put(sh, tab, SheetUpdate(sh[tab], row_num, BlankRow(Len(hdrs))))
                       ELSE sh,
             raised |-> FALSE]

delete(svc, sh, tab, doc_id, oc) ==
    LET svc1 == CacheRemove(svc, tab, doc_id)
        row_num == RowNum(svc, tab, doc_id)
        hdrs == Get(svc.headers, tab, <<>>)
        sh1 == IF ~svc.demo_mode /\ row_num # 0 /\ hdrs # <<>> /\ RemoteApplied(sh, tab, oc)
               THEN Put(sh, tab, SheetUpdate(sh[tab], row_num, BlankRow(Len(hdrs))))
               ELSE sh
    IN [svc |-> RowMapPop(svc1, tab, doc_id), sheet |-> sh1, raised |-> FALSE]

-----------------------------------------------------------------------------
(* Calls made on the service *)

Ids == {"a"}                \* identifiers a caller supplies
Vals == {"x", "y"}          \* cell texts of column v
WVals == {"p"}              \* cell texts of column w

DocIds == Ids \cup {uuid4(k) : k \in 1..MaxGen}

\* rows as SheetDocument._to_row builds them; _id '' asks for a generated one
InputRows == [_id : Ids \cup {""}, v : Vals, w : WVals]

NoCall == [op |-> "none", id |-> ""]

retry_vars == <<r_script, rt>>

\* what the calls on the service leave alone
idle_vars == <<retry_vars, boot, hs, held, doc>>

GridLen(tab) == Len(Get(sheet, tab, <<>>))

Insert(tab, row, oc) ==
    /\ Len(Rows(db, tab)) < MaxRows
    /\ GridLen(tab) < MaxSheetRows
    /\ NeedsId(row) => uuid_n < MaxGen
    /\ LET r == insert(db, sheet, tab, row, uuid_n, oc)
       IN /\ db' = r.svc
          /\ sheet' = r.sheet
          /\ uuid_n' = r.n
          /\ last' = [op |-> "insert", id |-> RowId(r.ret)]

Update(tab, doc_id, row, oc) ==
    /\ RowId(row) = doc_id
    /\ LET r == update(db, sheet, tab, doc_id, row, oc)
       IN /\ db' = r.svc
          /\ sheet' = r.sheet
          /\ last' = [op |-> "update", id |-> doc_id]
    /\ UNCHANGED uuid_n

Delete(tab, doc_id, oc) ==
    /\ LET r == delete(db, sheet, tab, doc_id, oc)
       IN /\ db' = r.svc
          /\ sheet' = r.sheet
          /\ last' = [op |-> "delete", id |-> doc_id]
    /\ UNCHANGED uuid_n

EnsureTab(tab, oc1, oc2) ==
    /\ LET r == ensure_tab(db, sheet, tab, HeaderList, oc1, oc2)
       IN /\ db' = r.svc
          /\ sheet' = r.sheet
          /\ last' = [op |-> "ensure_tab", id |-> ""]
    /\ UNCHANGED uuid_n

Batches == UNION {[1..k -> InputRows] : k \in 0..MaxBatch}

NumNeedId(rows) == Cardinality({i \in 1..Len(rows) : NeedsId(rows[i])})

InsertMany(tab, rows, oc) ==
    /\ Len(Rows(db, tab)) + Len(rows) <= MaxRows
    /\ GridLen(tab) < MaxSheetRows
    /\ uuid_n + NumNeedId(rows) <= MaxGen
    /\ LET r == insert_many(db, sheet, tab, rows, uuid_n, oc)
       IN /\ db' = r.svc
          /\ sheet' = r.sheet
          /\ uuid_n' = r.n
          /\ last' = [op |-> "insert_many", id |-> ""]

Load(tab, resp) ==
    /\ LET r == _load_tab(db, sheet, tab, resp)
       IN /\ db' = r.svc
          /\ sheet' = r.sheet
          /\ last' = [op |-> "load", id |-> ""]
    /\ UNCHANGED uuid_n

UpdateRows(doc_id) == [_id : {doc_id}, v : Vals, w : WVals]

-----------------------------------------------------------------------------
(* Startup: _init_google and initialize                                     *)

\* the environment _init_google looks at
\*   token  the saved token.json: "none" no file, "bad" cannot be parsed,
\*          "valid", "expired_no_refresh" (expired, no refresh token),
\*          "refresh_ok", "refresh_fail" (creds.refresh raises),
\*          "refresh_save_fail" (refreshed, writing token.json raises)
\*   sa     the credentials file: "none" no file, "unreadable" (open/json.load
\*          raises), "other_type" (type is not service_account), "bad_key"
\*          (from_service_account_file raises), "ok_valid" / "ok_unvalidated"
\*          (credentials built, creds.valid true / false)
TokenStates == {"none", "bad", "valid", "expired_no_refresh", "refresh_ok",
                "refresh_fail", "refresh_save_fail"}

SaStates == {"none", "unreadable", "other_type", "bad_key", "ok_valid", "ok_unvalidated"}

Envs == [has_id : BOOLEAN, google : BOOLEAN, token : TokenStates, sa : SaStates,
         build_token : BOOLEAN, build_sa : BOOLEAN,
         api_key : BOOLEAN, build_key : BOOLEAN]

\* lines 93-109: the saved OAuth2 token
LoadToken(env) ==
    IF env.token \in {"none", "bad", "refresh_fail", "refresh_save_fail"} THEN None
    ELSE [kind |-> "token", valid |-> env.token \in {"valid", "refresh_ok"}]

\* lines 111-123: the service account key, looked at only without valid creds
LoadServiceAccount(creds, env) ==
    IF creds = None \/ ~creds.valid
    THEN IF env.sa \in {"ok_valid", "ok_unvalidated"}
         THEN [kind |-> "sa", valid |-> env.sa = "ok_valid"]
         ELSE creds
    ELSE creds

\* build('sheets', 'v4', ...) returns (TRUE) or raises (FALSE)
BuildOk(kind, env) ==
    IF kind = "token" THEN env.build_token
    ELSE IF kind = "sa" THEN env.build_sa
    ELSE env.build_key

Connected(used, key_mode) ==
    [demo_mode |-> FALSE, used |-> used, api_key_mode |-> key_mode, raised |-> FALSE]

Offline == [demo_mode |-> TRUE, used |-> "none", api_key_mode |-> FALSE, raised |-> FALSE]

_init_google(env) ==
    IF ~env.has_id \/ ~env.google THEN Offline
    ELSE LET creds == LoadServiceAccount(LoadToken(env), env)
         IN IF creds # None /\ creds.valid /\ BuildOk(creds.kind, env)
            THEN Connected(creds.kind, FALSE)
            ELSE IF env.api_key /\ BuildOk("api_key", env)
            THEN Connected("api_key", TRUE)
            ELSE Offline

\* an environment in which the saved token connects
TokenEnv == [has_id |-> TRUE, google |-> TRUE, token |-> "valid", sa |-> "none",
             build_token |-> TRUE, build_sa |-> TRUE,
             api_key |-> FALSE, build_key |-> TRUE]

NoBoot == [pc |-> "off", env |-> TokenEnv, used |-> "none", api_key_mode |-> FALSE,
           todo |-> {}, seen |-> <<>>]

\* no request handler started, nothing returned to a caller yet
NoHandlers == <<>>

NoHeld == None

\* no call on the document layer in progress
NoDoc == [pc |-> "off"]

\* initialize, line 156
InitGoogle ==
    /\ boot.pc = "new"
    /\ LET r == _init_google(boot.env)
       IN /\ db' = [db EXCEPT !.demo_mode = r.demo_mode]
          /\ boot' = [boot EXCEPT !.pc = IF r.demo_mode THEN "done" ELSE "connected",
                                  !.used = r.used,
                                  !.api_key_mode = r.api_key_mode]
    /\ UNCHANGED <<sheet, off, uuid_n, last, retry_vars, hs, held, doc>>

\* a remote call made without the wrapper: func() is called once and what it
\* raises is raised
DirectCall(resp) == IF resp = "ok" THEN "returned" ELSE "raised"

\* initialize, lines 164-169: spreadsheets().get(...).execute() and the names
\* of the tabs that start with '_'
ListTabs(resp) ==
    /\ boot.pc = "connected"
    /\ LET names == {tab \in DOMAIN sheet : tab \in Tabs}
       IN boot' = [boot EXCEPT
                     !.seen = Append(@, resp),
                     !.todo = IF DirectCall(resp) = "returned" THEN names ELSE {},
                     !.pc = IF DirectCall(resp) = "raised" THEN "raised"
                            ELSE IF names = {} THEN "done" ELSE "loading"]
    /\ UNCHANGED <<db, sheet, off, uuid_n, last, retry_vars, hs, held, doc>>

\* initialize, lines 168-175: self._load_tab(name) for the next name; what
\* _load_tab raises ends initialize
LoadTab(tab, resp) ==
    /\ boot.pc = "loading"
    /\ tab \in boot.todo
    /\ LET r == _load_tab(db, sheet, tab, IF DirectCall(resp) = "returned" THEN "ok" ELSE resp)
       IN /\ db' = r.svc
          /\ boot' = [boot EXCEPT
                        !.seen = Append(@, resp),
                        !.todo = @ \ {tab},
                        !.pc = IF r.raised THEN "raised"
                               ELSE IF boot.todo = {tab} THEN "done" ELSE "loading"]
    /\ UNCHANGED <<sheet, off, uuid_n, last, retry_vars, hs, held, doc>>

\* the remote tab as startup may find it: absent, empty, or a header row
\* followed by data rows (short rows and blank rows included)
MaxLoadRows == 2

GridRows == {<<"a", "x", "p">>, <<"a", "y">>, <<"b", "x", "p">>, <<"", "x", "p">>,
             <<"b">>, <<>>}

Grids == {<<>>} \cup
         {TrimGrid(<<HeaderList>> \o rows) :
             rows \in UNION {[1..k -> GridRows] : k \in 0..MaxLoadRows}}

StartupSheets == {EmptyDict} \cup {Put(EmptyDict, tab, g) : tab \in Tabs, g \in Grids}

\* environments that connect by each path, and one that does not connect
StartupEnvs == {TokenEnv,
                [TokenEnv EXCEPT !.token = "none", !.sa = "ok_valid"],
                [TokenEnv EXCEPT !.token = "none", !.api_key = TRUE],
                [TokenEnv EXCEPT !.token = "none"]}

NextStartup ==
    \/ InitGoogle
    \/ \E resp \in Responses : ListTabs(resp)
    \/ \E tab \in Tabs, resp \in Responses : LoadTab(tab, resp)

InitStartup ==
    /\ db = NewService(FALSE)
    /\ off = NewService(TRUE)
    /\ sheet \in StartupSheets
    /\ uuid_n = 0
    /\ last = NoCall
    /\ r_script = [i \in 1..(max_retries + 2) |-> "ok"]
    /\ rt = RetryStart
    /\ boot \in {[NoBoot EXCEPT !.pc = "new", !.env = e] : e \in StartupEnvs}
    /\ hs = NoHandlers
    /\ held = NoHeld
    /\ doc = NoDoc

SpecStartup == InitStartup /\ [][NextStartup]_vars

(* _init_google in every environment *)

InitCredentials ==
    /\ db = NewService(FALSE)
    /\ off = NewService(TRUE)
    /\ sheet = EmptyDict
    /\ uuid_n = 0
    /\ last = NoCall
    /\ r_script = [i \in 1..(max_retries + 2) |-> "ok"]
    /\ rt = RetryStart
    /\ boot \in {[NoBoot EXCEPT !.pc = "new", !.env = e] : e \in Envs}
    /\ hs = NoHandlers
    /\ held = NoHeld
    /\ doc = NoDoc

SpecCredentials == InitCredentials /\ [][InitGoogle]_vars


-----------------------------------------------------------------------------
(* Request handlers.  The routes and the SheetDocument methods are coroutines *)
(* (async def) of one event loop; SheetsDBService.insert and the reads are    *)
(* plain functions, the wrapper sleeps with time.sleep and the remote call is *)
(* a blocking .execute(): a handler that has started runs until it reaches an *)
(* await or returns, and nothing else runs meanwhile.                         *)

Handlers == {"h1", "h2"}

\* the positions inside a call at which the handler has started and not returned
InCall == {"appended", "numbered", "remote", "sleeping"}

\* slip: the handlers run as threads (plain def routes in the thread pool) and
\* are preempted between any two statements
AwaitPoints_Threads == InCall

\* the positions inside insert at which the coroutine awaits: there is none
AwaitPoints == {}

\* the handler holds the event loop
Holding(h) == hs[h].pc \in InCall \ AwaitPoints

\* the event loop can run handler h
CanRun(h) == \A g \in Handlers \ {h} : ~Holding(g)

IdleHandler == [pc |-> "idle", op |-> "none", tab |-> "", row |-> EmptyDict,
                next_row |-> 0, rt |-> RetryStart, ret |-> None]

\* a request arrives: SheetDocument.insert() of a row, or SheetDocument.get(id)
Begin(h, op, tab, row) ==
    /\ hs[h].pc = "idle"
    /\ op = "insert" => (NeedsId(row) =>
                           uuid_n + Cardinality({g \in Handlers : hs[g].pc = "insert"
                                                    /\ NeedsId(hs[g].row)}) < MaxGen)
    /\ hs' = [hs EXCEPT ![h] = [IdleHandler EXCEPT !.pc = op, !.op = op,
                                                   !.tab = tab, !.row = row]]
    /\ UNCHANGED <<db, sheet, off, uuid_n, last, retry_vars, boot, held, doc>>

\* insert, lines 289-297
InsertAppend(h) ==
    /\ hs[h].pc = "insert"
    /\ CanRun(h)
    /\ LET rd == WithId(hs[h].row, uuid_n)
       IN /\ db' = AppendRow(db, hs[h].tab, rd)
          /\ uuid_n' = IF NeedsId(hs[h].row) THEN uuid_n + 1 ELSE uuid_n
          /\ hs' = [hs EXCEPT ![h].pc = "appended", ![h].row = rd]
    /\ UNCHANGED <<sheet, off, last, retry_vars, boot, held, doc>>

\* insert, line 298
InsertNumber(h) ==
    /\ hs[h].pc = "appended"
    /\ CanRun(h)
    /\ hs' = [hs EXCEPT ![h].pc = "numbered", ![h].next_row = NextRow(db, hs[h].tab)]
    /\ UNCHANGED <<db, sheet, off, uuid_n, last, retry_vars, boot, held, doc>>

\* insert, lines 299-304: the index entry, then the remote append if connected
\* and the table has headers
InsertIndex(h) ==
    /\ hs[h].pc = "numbered"
    /\ CanRun(h)
    /\ db' = SetRowNum(db, hs[h].tab, RowId(hs[h].row), hs[h].next_row)
    /\ hs' = [hs EXCEPT ![h].pc = IF ~db.demo_mode /\ Get(db.headers, hs[h].tab, <<>>) # <<>>
                                   THEN "remote" ELSE "done",
                        ![h].ret = hs[h].row]
    /\ UNCHANGED <<sheet, off, uuid_n, last, retry_vars, boot, held, doc>>

\* insert, lines 305-315: one call of func() inside _retry_on_rate_limit
RemoteCall(h, resp) ==
    /\ hs[h].pc = "remote"
    /\ CanRun(h)
    /\ LET st == RetryCallStep(hs[h].rt, resp)
           tab == hs[h].tab
       IN /\ hs' = [hs EXCEPT ![h].rt = st,
                              ![h].pc = IF st.status = "sleeping" THEN "sleeping" ELSE "done"]
          /\ sheet' = IF RemoteApplied(sheet, tab, st.status)
                      THEN Put(sheet, tab,
                               SheetAppend(sheet[tab], <<RowValues(hs[h].row, db.headers[tab])>>))
                      ELSE sheet
    /\ UNCHANGED <<db, off, uuid_n, last, retry_vars, boot, held, doc>>

\* _retry_on_rate_limit, line 45: time.sleep(wait) returns
RemoteSleep(h) ==
    /\ hs[h].pc = "sleeping"
    /\ CanRun(h)
    /\ LET st == RetrySleepStep(hs[h].rt)
       IN hs' = [hs EXCEPT ![h].rt = st,
                           ![h].pc = IF st.status = "calling" THEN "remote" ELSE "done"]
    /\ UNCHANGED <<db, sheet, off, uuid_n, last, retry_vars, boot, held, doc>>

\* SheetDocument.get: db.get_by_id on the cache
ReadStep(h) ==
    /\ hs[h].pc = "read"
    /\ CanRun(h)
    /\ hs' = [hs EXCEPT ![h].pc = "done",
                        ![h].ret = get_by_id(db, hs[h].tab, RowId(hs[h].row))]
    /\ UNCHANGED <<db, sheet, off, uuid_n, last, retry_vars, boot, held, doc>>

NextHandlers ==
    \/ \E h \in Handlers, op \in {"insert", "read"}, tab \in Tabs, row \in InputRows :
          Begin(h, op, tab, row)
    \/ \E h \in Handlers : InsertAppend(h)
    \/ \E h \in Handlers : InsertNumber(h)
    \/ \E h \in Handlers : InsertIndex(h)
    \/ \E h \in Handlers, resp \in Responses : RemoteCall(h, resp)
    \/ \E h \in Handlers : RemoteSleep(h)
    \/ \E h \in Handlers : ReadStep(h)

\* the service after startup, connected with the tab ensured, or in demo mode
InitHandlers ==
    /\ \E tab \in Tabs, demo \in BOOLEAN :
          LET r == ensure_tab(NewService(demo), EmptyDict, tab, HeaderList,
                              "returned", "returned")
          IN db = r.svc /\ sheet = r.sheet
    /\ off = NewService(TRUE)
    /\ uuid_n = 0
    /\ last = NoCall
    /\ r_script = [i \in 1..(max_retries + 2) |-> "ok"]
    /\ rt = RetryStart
    /\ boot = NoBoot
    /\ hs = [h \in Handlers |-> IdleHandler]
    /\ held = NoHeld
    /\ doc = NoDoc

SpecHandlers == InitHandlers /\ [][NextHandlers]_vars

-----------------------------------------------------------------------------
(* Calls on the service in any order, every remote outcome *)

Next ==
    \/ \E tab \in Tabs, row \in InputRows, oc \in RetryOutcomes :
          Insert(tab, row, oc) /\ UNCHANGED <<off, idle_vars>>
    \/ \E tab \in Tabs, rows \in Batches, oc \in RetryOutcomes :
          InsertMany(tab, rows, oc) /\ UNCHANGED <<off, idle_vars>>
    \/ \E tab \in Tabs, doc_id \in DocIds, oc \in RetryOutcomes :
          \E row \in UpdateRows(doc_id) :
              Update(tab, doc_id, row, oc) /\ UNCHANGED <<off, idle_vars>>
    \/ \E tab \in Tabs, doc_id \in DocIds, oc \in RetryOutcomes :
          Delete(tab, doc_id, oc) /\ UNCHANGED <<off, idle_vars>>
    \/ \E tab \in Tabs, oc1 \in RetryOutcomes, oc2 \in RetryOutcomes :
          EnsureTab(tab, oc1, oc2) /\ UNCHANGED <<off, idle_vars>>
    \/ \E tab \in Tabs, resp \in {"ok", "err"} :
          Load(tab, resp) /\ UNCHANGED <<off, idle_vars>>

Init ==
    /\ db \in {NewService(TRUE), NewService(FALSE)}
    /\ off = NewService(TRUE)
    /\ sheet = EmptyDict
    /\ uuid_n = 0
    /\ last = NoCall
    /\ r_script = [i \in 1..(max_retries + 2) |-> "ok"]
    /\ rt = RetryStart
    /\ boot = NoBoot
    /\ hs = NoHandlers
    /\ held = NoHeld
    /\ doc = NoDoc

Spec == Init /\ [][Next]_vars

(* The same calls made on a connected service and on one in demo mode, both *)
(* starting from an empty cache                                             *)

NextEquiv ==
    \/ \E tab \in Tabs, row \in InputRows, oc \in RetryOutcomes :
          /\ Insert(tab, row, oc)
          /\ off' = insert(off, sheet, tab, row, uuid_n, oc).svc
          /\ UNCHANGED idle_vars
    \/ \E tab \in Tabs, rows \in Batches, oc \in RetryOutcomes :
          /\ InsertMany(tab, rows, oc)
          /\ off' = insert_many(off, sheet, tab, rows, uuid_n, oc).svc
          /\ UNCHANGED idle_vars
    \/ \E tab \in Tabs, doc_id \in DocIds, oc \in RetryOutcomes :
          \E row \in UpdateRows(doc_id) :
              /\ Update(tab, doc_id, row, oc)
              /\ off' = update(off, sheet, tab, doc_id, row, oc).svc
              /\ UNCHANGED idle_vars
    \/ \E tab \in Tabs, doc_id \in DocIds, oc \in RetryOutcomes :
          /\ Delete(tab, doc_id, oc)
          /\ off' = delete(off, sheet, tab, doc_id, oc).svc
          /\ UNCHANGED idle_vars
    \/ \E tab \in Tabs, oc1 \in RetryOutcomes, oc2 \in RetryOutcomes :
          /\ EnsureTab(tab, oc1, oc2)
          /\ off' = ensure_tab(off, sheet, tab, HeaderList, oc1, oc2).svc
          /\ UNCHANGED idle_vars

InitEquiv ==
    /\ db = NewService(FALSE)
    /\ off = NewService(TRUE)
    /\ sheet = EmptyDict
    /\ uuid_n = 0
    /\ last = NoCall
    /\ r_script = [i \in 1..(max_retries + 2) |-> "ok"]
    /\ rt = RetryStart
    /\ boot = NoBoot
    /\ hs = NoHandlers
    /\ held = NoHeld
    /\ doc = NoDoc

SpecEquiv == InitEquiv /\ [][NextEquiv]_vars

(* A connected service after startup (connect_to_sheets has ensured the tab), *)
(* every remote call succeeding, the calls made as SheetDocument.save and     *)
(* SheetDocument.delete make them: save inserts an identifier that is not in  *)
(* the cache and updates one that is                                          *)

Cached(tab, doc_id) == get_by_id(db, tab, doc_id) # None

\* the rows of a batch carry no identifier that is cached or repeated
FreshBatch(tab, rows) ==
    /\ \A i \in 1..Len(rows) : RowId(rows[i]) # "" => ~Cached(tab, RowId(rows[i]))
    /\ \A i, j \in 1..Len(rows) :
          (i # j /\ RowId(rows[i]) # "") => RowId(rows[i]) # RowId(rows[j])

NextReliable ==
    \/ \E tab \in Tabs, row \in InputRows :
          /\ RowId(row) # "" => ~Cached(tab, RowId(row))
          /\ Insert(tab, row, "returned")
          /\ UNCHANGED <<off, idle_vars>>
    \/ \E tab \in Tabs, rows \in Batches :
          /\ FreshBatch(tab, rows)
          /\ InsertMany(tab, rows, "returned")
          /\ UNCHANGED <<off, idle_vars>>
    \/ \E tab \in Tabs, doc_id \in DocIds :
          \E row \in UpdateRows(doc_id) :
              /\ Cached(tab, doc_id)
              /\ Update(tab, doc_id, row, "returned")
              /\ UNCHANGED <<off, idle_vars>>
    \/ \E tab \in Tabs, doc_id \in DocIds :
          Delete(tab, doc_id, "returned") /\ UNCHANGED <<off, idle_vars>>
    \/ \E tab \in Tabs :
          EnsureTab(tab, "returned", "returned") /\ UNCHANGED <<off, idle_vars>>
    \/ \E tab \in Tabs :
          Load(tab, "ok") /\ UNCHANGED <<off, idle_vars>>

InitReliable ==
    /\ \E tab \in Tabs :
          LET r == ensure_tab(NewService(FALSE), EmptyDict, tab, HeaderList,
                              "returned", "returned")
          IN db = r.svc /\ sheet = r.sheet
    /\ off = NewService(TRUE)
    /\ uuid_n = 0
    /\ last = NoCall
    /\ r_script = [i \in 1..(max_retries + 2) |-> "ok"]
    /\ rt = RetryStart
    /\ boot = NoBoot
    /\ hs = NoHandlers
    /\ held = NoHeld
    /\ doc = NoDoc

SpecReliable == InitReliable /\ [][NextReliable]_vars

-----------------------------------------------------------------------------
(* Reads as the callers see them: a list is an object, and what a read hands  *)
(* back is either the cache's own list or a new one                           *)

\* the list object self._cache[tab]
CacheList(svc, tab) == [ref |-> <<"cache", tab>>, items |-> svc.cache[tab]]

\* a list object created by the call: [], list(rows), a comprehension
NewList(items) == [ref |-> <<"new">>, items |-> items]

\* slip: setdefault instead of get, the read creates the table
CacheGet_SetDefault(svc, tab) ==
    LET s1 == IF tab \in DOMAIN svc.cache THEN svc
              ELSE [svc EXCEPT !.cache = Put(@, tab, <<>>)]
    IN [svc |-> s1, obj |-> CacheList(s1, tab)]

\* self._cache.get(tab_name, []): the cached list, or a new empty one; the
\* dict is not changed
CacheGet(svc, tab) ==
    [svc |-> svc,
     obj |-> IF tab \in DOMAIN svc.cache THEN CacheList(svc, tab) ELSE NewList(<<>>)]

\* slip: without a predicate the cached list itself is returned
find_call_NoCopy(svc, tab, filter_fn) ==
    LET g == CacheGet(svc, tab)
    IN [svc |-> g.svc, raised |-> FALSE,
        ret |-> IF filter_fn = None THEN g.obj
                ELSE NewList(SelectSeq(g.obj.items, LAMBDA r : Call(filter_fn, r)))]

\* find, lines 258-263; filter_fn None is the call without a predicate
find_call(svc, tab, filter_fn) ==
    LET g == CacheGet(svc, tab)
    IN [svc |-> g.svc, raised |-> FALSE,
        ret |-> IF filter_fn = None THEN NewList(g.obj.items)
                ELSE NewList(SelectSeq(g.obj.items, LAMBDA r : Call(filter_fn, r)))]

\* find_one, lines 265-270
find_one_call(svc, tab, filter_fn) ==
    LET g == CacheGet(svc, tab)
        m == SelectSeq(g.obj.items, LAMBDA r : Call(filter_fn, r))
    IN [svc |-> g.svc, raised |-> FALSE, ret |-> IF m = <<>> THEN None ELSE m[1]]

\* get_by_id, lines 272-277
get_by_id_call(svc, tab, doc_id) ==
    LET g == CacheGet(svc, tab)
        i == FirstIndex(g.obj.items, doc_id, 1)
    IN [svc |-> g.svc, raised |-> FALSE, ret |-> IF i = 0 THEN None ELSE g.obj.items[i]]

\* count, lines 279-283
count_call(svc, tab, filter_fn) ==
    LET g == CacheGet(svc, tab)
    IN [svc |-> g.svc, raised |-> FALSE,
        ret |-> IF filter_fn = None THEN Len(g.obj.items)
                ELSE Len(SelectSeq(g.obj.items, LAMBDA r : Call(filter_fn, r)))]

\* table names read: the table of the model and one never loaded or created
ReadTabs == Tabs \cup {"_u"}

ReadFilters == {Filter("v", "eq", "x")}

ReadIds == Ids \cup {"zz"}

Held(op, tab, arg, r) == [op |-> op, tab |-> tab, arg |-> arg, ret |-> r.ret,
                          raised |-> r.raised, mutations |-> 0]

FindCall(tab, filter_fn) ==
    /\ LET r == find_call(db, tab, filter_fn)
       IN /\ db' = r.svc
          /\ held' = Held("find", tab, filter_fn, r)
    /\ last' = [op |-> "find", id |-> ""]
    /\ UNCHANGED <<sheet, off, uuid_n, retry_vars, boot, hs, doc>>

FindOneCall(tab, filter_fn) ==
    /\ LET r == find_one_call(db, tab, filter_fn)
       IN /\ db' = r.svc
          /\ held' = Held("find_one", tab, filter_fn, r)
    /\ last' = [op |-> "find_one", id |-> ""]
    /\ UNCHANGED <<sheet, off, uuid_n, retry_vars, boot, hs, doc>>

GetByIdCall(tab, doc_id) ==
    /\ LET r == get_by_id_call(db, tab, doc_id)
       IN /\ db' = r.svc
          /\ held' = Held("get_by_id", tab, doc_id, r)
    /\ last' = [op |-> "get_by_id", id |-> doc_id]
    /\ UNCHANGED <<sheet, off, uuid_n, retry_vars, boot, hs, doc>>

CountCall(tab, filter_fn) ==
    /\ LET r == count_call(db, tab, filter_fn)
       IN /\ db' = r.svc
          /\ held' = Held("count", tab, filter_fn, r)
    /\ last' = [op |-> "count", id |-> ""]
    /\ UNCHANGED <<sheet, off, uuid_n, retry_vars, boot, hs, doc>>

MaxMutations == 1    \* in-place changes a caller makes to one returned list

\* what a caller may do to a list in place
ListMutations == {"append", "pop", "reverse"}

ForeignRow == [_id |-> "zz", v |-> "x", w |-> "p"]

MutateList(items, m) ==
    IF m = "append" THEN Append(items, ForeignRow)
    ELSE IF m = "pop" THEN SubSeq(items, 1, Len(items) - 1)
    ELSE [i \in 1..Len(items) |-> items[Len(items) + 1 - i]]

\* the caller mutates in place the list find returned; if that object is the
\* cache's list, the cache changes with it
MutateReturned(m) ==
    /\ held # NoHeld
    /\ held.op = "find"
    /\ held.mutations < MaxMutations
    /\ m = "append" => Len(held.ret.items) <= MaxRows
    /\ m = "pop" => held.ret.items # <<>>
    /\ LET items == MutateList(held.ret.items, m)
       IN /\ held' = [held EXCEPT !.ret.items = items, !.mutations = @ + 1]
          /\ db' = IF held.ret.ref[1] = "cache"
                   THEN [db EXCEPT !.cache = Put(@, held.ret.ref[2], items)]
                   ELSE db
    /\ last' = [op |-> "mutate_returned", id |-> ""]
    /\ UNCHANGED <<sheet, off, uuid_n, retry_vars, boot, hs, doc>>

\* writes as SheetDocument makes them, every remote call succeeding
WriteCalls ==
    \/ \E tab \in Tabs, row \in InputRows :
          /\ RowId(row) # "" => ~Cached(tab, RowId(row))
          /\ Insert(tab, row, "returned")
    \/ \E tab \in Tabs, doc_id \in DocIds :
          \E row \in UpdateRows(doc_id) :
              Cached(tab, doc_id) /\ Update(tab, doc_id, row, "returned")
    \/ \E tab \in Tabs, doc_id \in DocIds : Delete(tab, doc_id, "returned")
    \/ \E tab \in Tabs : EnsureTab(tab, "returned", "returned")

NextCallers ==
    \/ WriteCalls /\ UNCHANGED <<off, idle_vars>>
    \/ \E tab \in ReadTabs, filter_fn \in ReadFilters \cup {None} : FindCall(tab, filter_fn)
    \/ \E tab \in ReadTabs, filter_fn \in ReadFilters : FindOneCall(tab, filter_fn)
    \/ \E tab \in ReadTabs, doc_id \in ReadIds : GetByIdCall(tab, doc_id)
    \/ \E tab \in ReadTabs, filter_fn \in ReadFilters \cup {None} : CountCall(tab, filter_fn)
    \/ \E m \in ListMutations : MutateReturned(m)

InitCallers ==
    /\ db \in {NewService(TRUE), NewService(FALSE)}
    /\ off = NewService(TRUE)
    /\ sheet = EmptyDict
    /\ uuid_n = 0
    /\ last = NoCall
    /\ r_script = [i \in 1..(max_retries + 2) |-> "ok"]
    /\ rt = RetryStart
    /\ boot = NoBoot
    /\ hs = NoHandlers
    /\ held = NoHeld
    /\ doc = NoDoc

SpecCallers == InitCallers /\ [][NextCallers]_vars

-----------------------------------------------------------------------------
(* One call of _retry_on_rate_limit, against every script of responses *)

InitRetry ==
    /\ db = NewService(FALSE)
    /\ off = NewService(TRUE)
    /\ sheet = EmptyDict
    /\ uuid_n = 0
    /\ last = NoCall
    /\ r_script \in Scripts
    /\ rt = RetryStart
    /\ boot = NoBoot
    /\ hs = NoHandlers
    /\ held = NoHeld
    /\ doc = NoDoc

SpecRetry == InitRetry /\ [][RetryNext]_vars

\* the interpreter keeps running the call: a step that can be taken is taken
SpecRetryFair == InitRetry /\ [][RetryNext]_vars /\ WF_vars(RetryNext)

-----------------------------------------------------------------------------
(* The document layer (SheetDocument, FilterExpr, SheetQuery).  Here a cell   *)
(* text is a sequence of one-character strings, so that str(), float(),       *)
(* lower() and the comparison of two texts are computed and not assumed.      *)
(* A Python value is a record tagged with its type.                           *)

\* the characters the model's texts are made of, in code-point order
Chars == <<" ", "\"", "+", ",", "-", ".",
           "0", "1", "2", "3", "4", "5", "6", "7", "8", "9", ":",
           "A", "E", "F", "L", "N", "O", "R", "S", "T", "U", "Y", "[", "]",
           "a", "b", "e", "f", "i", "k", "l", "n", "o", "r", "s", "t", "u", "x", "y", "z",
           "{", "}">>

Ord(c) == CHOOSE i \in 1..Len(Chars) : Chars[i] = c

UpperCase == <<"A", "E", "F", "L", "N", "O", "R", "S", "T", "U", "Y">>
LowerCase == <<"a", "e", "f", "l", "n", "o", "r", "s", "t", "u", "y">>

\* str.lower()
Lower(s) ==
    [i \in 1..Len(s) |->
        IF \E j \in 1..Len(UpperCase) : UpperCase[j] = s[i]
        THEN LowerCase[CHOOSE j \in 1..Len(UpperCase) : UpperCase[j] = s[i]]
        ELSE s[i]]

\* a < b on two str: by code point, a proper prefix first
RECURSIVE StrLt(_, _)
StrLt(a, b) ==
    IF b = <<>> THEN FALSE
    ELSE IF a = <<>> THEN TRUE
    ELSE IF a[1] = b[1] THEN StrLt(Tail(a), Tail(b))
    ELSE Ord(a[1]) < Ord(b[1])

DecimalDigits == <<"0", "1", "2", "3", "4", "5", "6", "7", "8", "9">>

IsDigit(c) == \E d \in 1..10 : DecimalDigits[d] = c

DigitValue(c) == (CHOOSE d \in 1..10 : DecimalDigits[d] = c) - 1

AllDigits(s) == s # <<>> /\ \A i \in 1..Len(s) : IsDigit(s[i])

\* the number a run of decimal digits denotes
RECURSIVE DigitsValue(_)
DigitsValue(s) ==
    IF s = <<>> THEN 0
    ELSE 10 * DigitsValue(SubSeq(s, 1, Len(s) - 1)) + DigitValue(s[Len(s)])

\* the decimal digits of n >= 0
RECURSIVE DigitsOf(_)
DigitsOf(n) ==
    IF n < 10 THEN <<DecimalDigits[n + 1]>>
    ELSE Append(DigitsOf(n \div 10), DecimalDigits[(n % 10) + 1])

\* n padded with zeros to w digits
RECURSIVE Padded(_, _)
Padded(n, w) == IF Len(DigitsOf(n)) >= w THEN DigitsOf(n) ELSE <<"0">> \o Padded(n, w - 1)

(* Numbers.  A float is kept in tenths (x = 25 is 2.5), which is exact for    *)
(* the values of the model; float("inf") is the one value that is not finite. *)
Finite(x) == [k |-> "fin", x |-> x]
Infinity == [k |-> "inf", x |-> 0]
NotANumber == [k |-> "error", x |-> 0]

Abs(n) == IF n < 0 THEN -n ELSE n

\* float(s) on a str: an optional sign, digits, and at most one digit after a
\* point, or the word "inf"; ValueError on every other text of the model
ParseUnsigned(s) ==
    IF AllDigits(s) THEN Finite(10 * DigitsValue(s))
    ELSE IF /\ Len(s) >= 3
            /\ s[Len(s) - 1] = "."
            /\ AllDigits(SubSeq(s, 1, Len(s) - 2))
            /\ IsDigit(s[Len(s)])
         THEN Finite(10 * DigitsValue(SubSeq(s, 1, Len(s) - 2)) + DigitValue(s[Len(s)]))
    ELSE IF s = <<"i", "n", "f">> THEN Infinity
    ELSE NotANumber

ParseFloat(s) ==
    IF s # <<>> /\ s[1] = "-"
    THEN LET u == ParseUnsigned(Tail(s))
         IN IF u.k = "fin" THEN Finite(-u.x) ELSE NotANumber
    ELSE ParseUnsigned(s)

\* a < b on two float
NumLt(a, b) ==
    IF a.k = "inf" THEN FALSE
    ELSE IF b.k = "inf" THEN TRUE
    ELSE a.x < b.x

\* str(n) of an int
IntText(n) == IF n < 0 THEN <<"-">> \o DigitsOf(-n) ELSE DigitsOf(n)

\* str(x) of a float
FloatText(f) ==
    IF f.k = "inf" THEN <<"i", "n", "f">>
    ELSE (IF f.x < 0 THEN <<"-">> ELSE <<>>)
            \o DigitsOf(Abs(f.x) \div 10) \o <<".">> \o DigitsOf(Abs(f.x) % 10)

\* int(x) of a float: towards zero; OverflowError on infinity
Truncate(f) == IF f.x < 0 THEN -(Abs(f.x) \div 10) ELSE f.x \div 10

(* Python values *)
PyNone == [t |-> "none"]
PyStr(s) == [t |-> "str", s |-> s]
PyBool(b) == [t |-> "bool", b |-> b]
PyInt(n) == [t |-> "int", n |-> n]
PyFloat(f) == [t |-> "float", f |-> f]
PyDateTime(y, mo, d, h, mi, sec) ==
    [t |-> "datetime", y |-> y, mo |-> mo, d |-> d, h |-> h, mi |-> mi, sec |-> sec]
PyEnum(v) == [t |-> "enum", v |-> v]
PyList(items) == [t |-> "list", items |-> items]
\* a dict keeps its keys in insertion order: a sequence of <<key, value>>
PyDict(items) == [t |-> "dict", items |-> items]
\* an instance of the nested model
PyModel(k, x) == [t |-> "model", k |-> k, x |-> x]

\* str(value)
Str(value) ==
    CASE value.t = "none" -> <<"N", "o", "n", "e">>
      [] value.t = "str" -> value.s
      [] value.t = "bool" -> IF value.b THEN <<"T", "r", "u", "e">>
                             ELSE <<"F", "a", "l", "s", "e">>
      [] value.t = "int" -> IntText(value.n)
      [] value.t = "float" -> FloatText(value.f)

\* float(value): TypeError on None, ValueError on a text that is no number
Float(value) ==
    CASE value.t = "none" -> NotANumber
      [] value.t = "str" -> ParseFloat(value.s)
      [] value.t = "bool" -> Finite(IF value.b THEN 10 ELSE 0)
      [] value.t = "int" -> Finite(10 * value.n)
      [] value.t = "float" -> value.f

(* datetime *)
\* datetime.isoformat() of a value without microseconds
isoformat(d) ==
    Padded(d.y, 4) \o <<"-">> \o Padded(d.mo, 2) \o <<"-">> \o Padded(d.d, 2) \o <<"T">>
        \o Padded(d.h, 2) \o <<":">> \o Padded(d.mi, 2) \o <<":">> \o Padded(d.sec, 2)

Num(s, a, b) == DigitsValue(SubSeq(s, a, b))

\* datetime.fromisoformat(s): YYYY-MM-DDTHH:MM:SS; ValueError on every other
\* text of the model
fromisoformat(s) ==
    IF /\ Len(s) = 19
       /\ s[5] = "-" /\ s[8] = "-" /\ s[11] = "T" /\ s[14] = ":" /\ s[17] = ":"
       /\ \A i \in (1..19) \ {5, 8, 11, 14, 17} : IsDigit(s[i])
       /\ Num(s, 1, 4) >= 1
       /\ Num(s, 6, 7) \in 1..12 /\ Num(s, 9, 10) \in 1..28
       /\ Num(s, 12, 13) < 24 /\ Num(s, 15, 16) < 60 /\ Num(s, 18, 19) < 60
    THEN [ok |-> TRUE,
          v |-> PyDateTime(Num(s, 1, 4), Num(s, 6, 7), Num(s, 9, 10),
                           Num(s, 12, 13), Num(s, 15, 16), Num(s, 18, 19))]
    ELSE [ok |-> FALSE, v |-> PyNone]

(* json *)
StartsWith(s, p) == Len(s) >= Len(p) /\ SubSeq(s, 1, Len(p)) = p

Drop(s, n) == SubSeq(s, n + 1, Len(s))

RECURSIVE SkipSpace(_)
SkipSpace(s) == IF s # <<>> /\ s[1] = " " THEN SkipSpace(Tail(s)) ELSE s

RECURSIVE Join(_, _)
Join(texts, sep) ==
    IF texts = <<>> THEN <<>>
    ELSE IF Len(texts) = 1 THEN texts[1]
    ELSE texts[1] \o sep \o Join(Tail(texts), sep)

\* json.dumps(value) of what the model's entities hold: None, bool, int, str
\* (no character of the model needs an escape), list, dict
RECURSIVE JsonDumps(_)
JsonDumps(value) ==
    CASE value.t = "none" -> <<"n", "u", "l", "l">>
      [] value.t = "bool" -> IF value.b THEN <<"t", "r", "u", "e">>
                             ELSE <<"f", "a", "l", "s", "e">>
      [] value.t = "int" -> IntText(value.n)
      [] value.t = "str" -> <<"\"">> \o value.s \o <<"\"">>
      [] value.t = "list" ->
            <<"[">> \o Join([i \in 1..Len(value.items) |-> JsonDumps(value.items[i])],
                            <<",", " ">>) \o <<"]">>
      [] value.t = "dict" ->
            <<"{">> \o Join([i \in 1..Len(value.items) |->
                                <<"\"">> \o value.items[i][1] \o <<"\"", ":", " ">>
                                    \o JsonDumps(value.items[i][2])],
                            <<",", " ">>) \o <<"}">>

JsonFail == [ok |-> FALSE, v |-> PyNone, rest |-> <<>>]

JsonOk(v, rest) == [ok |-> TRUE, v |-> v, rest |-> rest]

IsNumberChar(c) == IsDigit(c) \/ c = "-" \/ c = "."

RECURSIVE NumberPrefix(_)
NumberPrefix(s) ==
    IF s # <<>> /\ IsNumberChar(s[1]) THEN <<s[1]>> \o NumberPrefix(Tail(s)) ELSE <<>>

JsonNumber(s) ==
    LET p == NumberPrefix(s)
        f == ParseFloat(p)
    IN IF f.k # "fin" THEN JsonFail
       ELSE IF \E i \in 1..Len(p) : p[i] = "." THEN JsonOk(PyFloat(f), Drop(s, Len(p)))
       ELSE JsonOk(PyInt(f.x \div 10), Drop(s, Len(p)))

JsonString(s) ==
    IF \E j \in 2..Len(s) : s[j] = "\""
    THEN LET j == CHOOSE j \in 2..Len(s) :
                    s[j] = "\"" /\ \A i \in 2..(j - 1) : s[i] # "\""
         IN JsonOk(PyStr(SubSeq(s, 2, j - 1)), Drop(s, j))
    ELSE JsonFail

\* the JSON value at the head of s, and what follows it
RECURSIVE JsonValue(_), JsonItems(_, _), JsonMembers(_, _)
JsonValue(s0) ==
    LET s == SkipSpace(s0)
    IN IF s = <<>> THEN JsonFail
       ELSE IF StartsWith(s, <<"n", "u", "l", "l">>) THEN JsonOk(PyNone, Drop(s, 4))
       ELSE IF StartsWith(s, <<"t", "r", "u", "e">>) THEN JsonOk(PyBool(TRUE), Drop(s, 4))
       ELSE IF StartsWith(s, <<"f", "a", "l", "s", "e">>) THEN JsonOk(PyBool(FALSE), Drop(s, 5))
       ELSE IF s[1] = "\"" THEN JsonString(s)
       ELSE IF s[1] = "["
            THEN LET t == SkipSpace(Tail(s))
                 IN IF t # <<>> /\ t[1] = "]" THEN JsonOk(PyList(<<>>), Tail(t))
                    ELSE JsonItems(t, <<>>)
       ELSE IF s[1] = "{"
            THEN LET t == SkipSpace(Tail(s))
                 IN IF t # <<>> /\ t[1] = "}" THEN JsonOk(PyDict(<<>>), Tail(t))
                    ELSE JsonMembers(t, <<>>)
       ELSE JsonNumber(s)

JsonItems(s, acc) ==
    LET r == JsonValue(s)
        t == SkipSpace(r.rest)
    IN IF ~r.ok \/ t = <<>> THEN JsonFail
       ELSE IF t[1] = "]" THEN JsonOk(PyList(Append(acc, r.v)), Tail(t))
       ELSE IF t[1] = "," THEN JsonItems(Tail(t), Append(acc, r.v))
       ELSE JsonFail

JsonMembers(s, acc) ==
    LET k == JsonValue(s)
        c == SkipSpace(k.rest)
        r == JsonValue(Tail(c))
        t == SkipSpace(r.rest)
    IN IF ~k.ok \/ k.v.t # "str" \/ c = <<>> \/ c[1] # ":" THEN JsonFail
       ELSE IF ~r.ok \/ t = <<>> THEN JsonFail
       ELSE IF t[1] = "}" THEN JsonOk(PyDict(Append(acc, <<k.v.s, r.v>>)), Tail(t))
       ELSE IF t[1] = "," THEN JsonMembers(Tail(t), Append(acc, <<k.v.s, r.v>>))
       ELSE JsonFail

\* json.loads(s); ok is FALSE where it raises JSONDecodeError
JsonLoads(s) ==
    LET r == JsonValue(s)
    IN IF r.ok /\ SkipSpace(r.rest) = <<>> THEN [ok |-> TRUE, v |-> r.v]
       ELSE [ok |-> FALSE, v |-> PyNone]

(* Field annotations.  Optional[X] is X with optional set: _deserialize_value *)
(* unwraps it to X before anything else (lines 230-240).                      *)
Ann(t, optional) == [t |-> t, optional |-> optional, inner |-> "none"]

\* List[inner]
ListOf(inner, optional) == [t |-> "list", optional |-> optional, inner |-> inner]

\* the values of the enum class of the model, as TransferStatus has "draft", ...
EnumValues == {<<"i", "n">>, <<"o", "u", "t">>}

(* pydantic.  The nested model has a required field and an optional one, as  *)
(* WarehouseLocation has code: str and name: Optional[str] = None.           *)
HasKey(d, key) == \E i \in 1..Len(d.items) : d.items[i][1] = key

DictGet(d, key) == d.items[CHOOSE i \in 1..Len(d.items) : d.items[i][1] = key][2]

Valid(v) == [ok |-> TRUE, v |-> v]

Invalid == [ok |-> FALSE, v |-> PyNone]

model_dump(m) == PyDict(<< << <<"k">>, m.k >>, << <<"x">>, m.x >> >>)

\* Inner.model_validate(data)
ValidateModel(data) ==
    IF data.t = "model" THEN Valid(data)
    ELSE IF data.t # "dict" THEN Invalid
    ELSE IF ~HasKey(data, <<"k">>) THEN Invalid
    ELSE LET k == DictGet(data, <<"k">>)
             x == IF HasKey(data, <<"x">>) THEN DictGet(data, <<"x">>) ELSE PyNone
         IN IF k.t = "str" /\ x.t \in {"str", "none"} THEN Valid(PyModel(k, x))
            ELSE Invalid

BoolTrueTexts == {<<"1">>, <<"o", "n">>, <<"t">>, <<"t", "r", "u", "e">>, <<"y">>,
                  <<"y", "e", "s">>}

BoolFalseTexts == {<<"0">>, <<"o", "f", "f">>, <<"f">>, <<"f", "a", "l", "s", "e">>, <<"n">>,
                   <<"n", "o">>}

\* validation of one value against one annotation, in pydantic's default mode:
\* None only where Optional, a str for a str, and a str for another type only
\* where it is a literal of that type
RECURSIVE Validate(_, _)
Validate(ann, value) ==
    IF value.t = "none" THEN (IF ann.optional THEN Valid(PyNone) ELSE Invalid)
    ELSE CASE ann.t = "str" -> IF value.t = "str" THEN Valid(value) ELSE Invalid
           [] ann.t = "bool" ->
                IF value.t = "bool" THEN Valid(value)
                ELSE IF value.t = "str" /\ Lower(value.s) \in BoolTrueTexts THEN Valid(PyBool(TRUE))
                ELSE IF value.t = "str" /\ Lower(value.s) \in BoolFalseTexts THEN Valid(PyBool(FALSE))
                ELSE Invalid
           [] ann.t = "int" ->
                IF value.t = "int" THEN Valid(value)
                ELSE IF value.t = "str" /\ ParseFloat(value.s).k = "fin"
                        /\ ParseFloat(value.s).x % 10 = 0
                     THEN Valid(PyInt(ParseFloat(value.s).x \div 10))
                ELSE Invalid
           [] ann.t = "float" ->
                IF value.t = "float" THEN Valid(value)
                ELSE IF value.t = "int" THEN Valid(PyFloat(Finite(10 * value.n)))
                ELSE IF value.t = "str" /\ ParseFloat(value.s).k # "error"
                     THEN Valid(PyFloat(ParseFloat(value.s)))
                ELSE Invalid
           [] ann.t = "datetime" ->
                IF value.t = "datetime" THEN Valid(value)
                ELSE IF value.t = "str" THEN fromisoformat(value.s)
                ELSE Invalid
           [] ann.t = "enum" ->
                IF value.t = "enum" THEN Valid(value)
                ELSE IF value.t = "str" /\ value.s \in EnumValues THEN Valid(PyEnum(value.s))
                ELSE Invalid
           [] ann.t = "model" -> ValidateModel(value)
           [] ann.t = "list" ->
                IF value.t # "list" THEN Invalid
                ELSE LET items == [i \in 1..Len(value.items) |->
                                      Validate(Ann(ann.inner, FALSE), value.items[i])]
                     IN IF \A i \in 1..Len(items) : items[i].ok
                        THEN Valid(PyList([i \in 1..Len(items) |-> items[i].v]))
                        ELSE Invalid

(* SheetDocument: _serialize_value, _deserialize_value, _to_row, _from_row *)
_serialize_value(value) ==
    CASE value.t = "none" -> <<>>
      [] value.t = "str" -> value.s
      [] value.t = "bool" -> Str(value)
      [] value.t \in {"int", "float"} -> Str(value)
      [] value.t = "datetime" -> isoformat(value)
      [] value.t = "enum" -> value.v
      [] value.t = "model" -> JsonDumps(model_dump(value))
      [] value.t = "list" ->
            IF value.items = <<>> THEN <<"[", "]">>
            ELSE IF value.items[1].t = "model"
                 THEN JsonDumps(PyList([i \in 1..Len(value.items) |->
                                            model_dump(value.items[i])]))
            ELSE JsonDumps(value)
      [] value.t = "dict" -> JsonDumps(value)

\* what a call gives back: a value, or an exception that leaves it
Returned(v) == [raised |-> FALSE, v |-> v]

Raised == [raised |-> TRUE, v |-> PyNone]

\* what "for item in data" goes through; a value not in the domain of this
\* operator is not iterable (TypeError)
Iterable(data) == data.t \in {"list", "dict", "str"}

Iterate(data) ==
    CASE data.t = "list" -> data.items
      [] data.t = "dict" -> [i \in 1..Len(data.items) |-> PyStr(data.items[i][1])]
      [] data.t = "str" -> [i \in 1..Len(data.s) |-> PyStr(<<data.s[i]>>)]

\* lines 243-251
DeserializeList(raw, inner) ==
    LET data == JsonLoads(raw)
    IN IF ~data.ok THEN Returned(PyList(<<>>))
       ELSE IF inner = "model"
            THEN IF ~Iterable(data.v) THEN Returned(PyList(<<>>))
                 ELSE LET src == Iterate(data.v)
                          items == [i \in 1..Len(src) |->
                                       IF src[i].t = "dict" THEN ValidateModel(src[i])
                                       ELSE Valid(src[i])]
                      IN IF \A i \in 1..Len(items) : items[i].ok
                         THEN Returned(PyList([i \in 1..Len(items) |-> items[i].v]))
                         ELSE Raised
       ELSE Returned(data.v)

\* lines 254-259
DeserializeModel(raw) ==
    LET data == JsonLoads(raw)
    IN IF data.ok /\ data.v.t = "dict" /\ ValidateModel(data.v).ok
       THEN Returned(ValidateModel(data.v).v)
       ELSE Returned(PyNone)

\* line 279
BoolTexts == {<<"t", "r", "u", "e">>, <<"1">>, <<"y", "e", "s">>}

_deserialize_value(raw, annotation) ==
    IF raw = <<>> THEN Returned(PyNone)
    ELSE CASE annotation.t = "list" -> DeserializeList(raw, annotation.inner)
           [] annotation.t = "model" -> DeserializeModel(raw)
           [] annotation.t = "enum" ->
                IF raw \in EnumValues THEN Returned(PyEnum(raw)) ELSE Returned(PyStr(raw))
           [] annotation.t = "datetime" -> Returned(fromisoformat(raw).v)
           [] annotation.t = "bool" -> Returned(PyBool(Lower(raw) \in BoolTexts))
           [] annotation.t = "int" ->
                LET f == ParseFloat(raw)
                IN IF f.k = "error" THEN Returned(PyInt(0))
                   ELSE IF f.k = "inf" THEN Raised
                   ELSE Returned(PyInt(Truncate(f)))
           [] annotation.t = "float" ->
                LET f == ParseFloat(raw)
                IN IF f.k = "error" THEN Returned(PyFloat(Finite(0)))
                   ELSE Returned(PyFloat(f))
           [] annotation.t = "str" -> Returned(PyStr(raw))

(* A document class of the model has the field id of SheetDocument and one   *)
(* field f; cls is [ann, default], default the value the class gives f or    *)
(* Required.  An entity is [id, f]; a row maps "_id" and "f" to cell texts.   *)
Required == [t |-> "required"]

Entity(id, f) == [id |-> id, f |-> f]

\* line 98: self.id or ''
_to_row(entity) ==
    ("_id" :> (IF entity.id.t = "none" THEN <<>> ELSE entity.id.s))
        @@ ("f" :> _serialize_value(entity.f))

\* cls.model_validate(data): id is Optional[str] with the alias _id and
\* populate_by_name; a key that is missing takes the default
model_validate(cls, data) ==
    LET id == IF "_id" \in DOMAIN data THEN data["_id"] ELSE Get(data, "id", PyNone)
        f == IF "f" \in DOMAIN data THEN Validate(cls.ann, data["f"])
             ELSE IF cls.default = Required THEN Invalid
             ELSE Valid(cls.default)
    IN IF id.t \in {"str", "none"} /\ f.ok THEN Valid(Entity(id, f.v)) ELSE Invalid

\* lines 89-94: the retry on the raw row
FromRowFallback(cls, row) ==
    LET fallback == [k \in (DOMAIN row \ {"_id"}) \cup
                           (IF "_id" \in DOMAIN row THEN {"id"} ELSE {}) |->
                        IF k = "id" THEN PyStr(row["_id"]) ELSE PyStr(row[k])]
        e == model_validate(cls, fallback)
    IN IF e.ok THEN Returned(e.v) ELSE Raised

_from_row(cls, row) ==
    LET raw == Get(row, "f", <<>>)
        cell == IF raw = <<>> THEN Returned(PyNone) ELSE _deserialize_value(raw, cls.ann)
        data == ("id" :> PyStr(Get(row, "_id", <<>>))) @@ ("f" :> cell.v)
        e == model_validate(cls, data)
    IN IF cell.raised THEN Raised
       ELSE IF e.ok THEN Returned(e.v)
       ELSE FromRowFallback(cls, row)

-----------------------------------------------------------------------------
(* Marshalling: an entity written to a row and read back, and a row of any   *)
(* cell text read into an entity                                             *)

Shapes == {"str", "bool", "int", "float", "datetime", "enum", "model", "list_str",
           "list_model"}

AnnOf(shape, optional) ==
    IF shape = "list_str" THEN ListOf("str", optional)
    ELSE IF shape = "list_model" THEN ListOf("model", optional)
    ELSE Ann(shape, optional)

DateTimes == {PyDateTime(2024, 1, 5, 0, 0, 7), PyDateTime(1999, 12, 28, 23, 59, 0)}

Models == {PyModel(PyStr(<<"a">>), PyNone), PyModel(PyStr(<<>>), PyStr(<<"b">>))}

\* the values a field of each shape can hold
ValuesOf(shape) ==
    CASE shape = "str" -> {PyStr(<<>>), PyStr(<<"a", "b">>), PyStr(<<"N", "o", "n", "e">>),
                           PyStr(<<"5">>)}
      [] shape = "bool" -> {PyBool(TRUE), PyBool(FALSE)}
      [] shape = "int" -> {PyInt(0), PyInt(5), PyInt(-2), PyInt(120)}
      [] shape = "float" -> {PyFloat(Finite(0)), PyFloat(Finite(25)), PyFloat(Finite(-5)),
                             PyFloat(Finite(100))}
      [] shape = "datetime" -> DateTimes
      [] shape = "enum" -> {PyEnum(v) : v \in EnumValues}
      [] shape = "model" -> Models
      [] shape = "list_str" -> {PyList(<<>>), PyList(<<PyStr(<<"a", "b">>)>>),
                                PyList(<<PyStr(<<"a">>), PyStr(<<>>)>>)}
      [] shape = "list_model" -> {PyList(<<>>)} \cup {PyList(<<m>>) : m \in Models}
                                    \cup {PyList(<<m, n>>) : m, n \in Models}

\* the default a class gives a field that is not Optional, where it gives one
DefaultOf(shape) ==
    CASE shape = "str" -> PyStr(<<"a", "b">>)
      [] shape = "bool" -> PyBool(TRUE)
      [] shape = "int" -> PyInt(5)
      [] shape = "float" -> PyFloat(Finite(0))
      [] shape = "datetime" -> PyDateTime(2024, 1, 5, 0, 0, 7)
      [] shape = "enum" -> PyEnum(<<"i", "n">>)
      [] shape = "model" -> PyModel(PyStr(<<"a">>), PyNone)
      [] shape = "list_str" -> PyList(<<>>)
      [] shape = "list_model" -> PyList(<<>>)

\* f: Optional[X] = None, f: X, f: X = default
Classes ==
    {[shape |-> sh, ann |-> AnnOf(sh, TRUE), default |-> PyNone] : sh \in Shapes}
        \cup {[shape |-> sh, ann |-> AnnOf(sh, FALSE), default |-> Required] : sh \in Shapes}
        \cup {[shape |-> sh, ann |-> AnnOf(sh, FALSE), default |-> DefaultOf(sh)] : sh \in Shapes}

\* identifiers of saved entities: save and insert give one before _to_row
EntityIds == {PyStr(<<"a", "1">>)}

EntitiesOf(cls) ==
    {Entity(id, v) : id \in EntityIds,
                     v \in ValuesOf(cls.shape) \cup (IF cls.ann.optional THEN {PyNone} ELSE {})}

\* cell texts a sheet may hold in the column of f
CellTexts ==
    {<<>>, <<"a", "b">>, <<"N", "o", "n", "e">>,
     <<"T", "r", "u", "e">>, <<"t", "r", "u", "e">>, <<"T", "R", "U", "E">>, <<"1">>,
     <<"y", "e", "s">>, <<"Y", "e", "s">>, <<"F", "a", "l", "s", "e">>, <<"0">>, <<"n", "o">>,
     <<"5">>, <<"5", ".", "0">>, <<"2", ".", "5">>, <<"-", "2">>, <<"1", "0">>,
     <<"i", "n", "f">>,
     <<"i", "n">>, <<"o", "u", "t">>,
     <<"[", "]">>, <<"[">>, <<"[", "\"", "a", "\"", "]">>, <<"\"", "a", "b", "\"">>,
     <<"{", "}">>,
     <<"{", "\"", "k", "\"", ":", " ", "\"", "a", "\"", "}">>,
     <<"{", "\"", "x", "\"", ":", " ", "\"", "a", "\"", "}">>,
     <<"[", "{", "\"", "k", "\"", ":", " ", "\"", "a", "\"", "}", "]">>,
     <<"[", "{", "\"", "x", "\"", ":", " ", "\"", "a", "\"", "}", "]">>,
     isoformat(PyDateTime(2024, 1, 5, 0, 0, 7)),
     <<"2", "0", "2", "4", "-", "1", "3", "-", "0", "5", "T", "0", "0", ":", "0", "0", ":",
       "0", "7">>}

\* rows of the cache: with the column of f, or loaded from a sheet without it
RawRows ==
    {("_id" :> id.s) @@ ("f" :> text) : id \in EntityIds, text \in CellTexts}
        \cup {("_id" :> id.s) : id \in EntityIds}

NoEntity == [t |-> "no entity"]

NoResult == [raised |-> FALSE, v |-> [t |-> "no result"]]

\* self._to_row()
ToRow ==
    /\ doc.pc = "entity"
    /\ doc' = [doc EXCEPT !.pc = "row", !.row = _to_row(doc.entity)]
    /\ UNCHANGED <<db, sheet, off, uuid_n, last, retry_vars, boot, hs, held>>

\* cls._from_row(row)
FromRow ==
    /\ doc.pc = "row"
    /\ doc' = [doc EXCEPT !.pc = "from_row", !.out = _from_row(doc.cls, doc.row)]
    /\ UNCHANGED <<db, sheet, off, uuid_n, last, retry_vars, boot, hs, held>>

\* _deserialize_value(raw, annotation) on the cell of f
DeserializeCell ==
    /\ doc.pc = "row"
    /\ "f" \in DOMAIN doc.row
    /\ doc' = [doc EXCEPT !.pc = "cell",
                          !.out = _deserialize_value(doc.row["f"], doc.cls.ann)]
    /\ UNCHANGED <<db, sheet, off, uuid_n, last, retry_vars, boot, hs, held>>

NextMarshal == ToRow \/ FromRow \/ DeserializeCell

InitMarshal ==
    /\ db = NewService(TRUE)
    /\ sheet = EmptyDict
    /\ off = NewService(TRUE)
    /\ uuid_n = 0
    /\ last = NoCall
    /\ r_script = <<>>
    /\ rt = RetryStart
    /\ boot = NoBoot
    /\ hs = NoHandlers
    /\ held = NoHeld
    /\ \E cls \in Classes :
          \/ \E entity \in EntitiesOf(cls) :
                doc = [pc |-> "entity", cls |-> cls, entity |-> entity,
                       row |-> EmptyDict, out |-> NoResult]
          \/ \E row \in RawRows :
                doc = [pc |-> "row", cls |-> cls, entity |-> NoEntity,
                       row |-> row, out |-> NoResult]

SpecMarshal == InitMarshal /\ [][NextMarshal]_vars

-----------------------------------------------------------------------------
(* Filters: FilterExpr, parse_dict_query, build_filter_from_args.  The regex *)
(* operators are left out: no filter of the model uses them.                 *)

\* FilterExpr(field, op, value), what Model.field == value and the like build
FilterExpr(field, op, value) ==
    [kind |-> "expr", field |-> field, op |-> op, value |-> value]

\* a dict query: its items in order, each <<key, condition>>; a condition is
\* a value, an operator dict or a FilterExpr
DictQuery(items) == [kind |-> "dict", items |-> items]

\* {"$op": value, ...} as the condition of a key
OpDict(items) == [t |-> "ops", items |-> items]

\* a predicate function given as it is: lambda r: r.get(field) == text
Lambda(field, text) == [kind |-> "callable", field |-> field, text |-> text]

\* an argument that is no filter, None for one
NotAFilter == [kind |-> "other"]

NoneText == <<"N", "o", "n", "e">>

\* a OP b on two float
NumCompare(op, a, b) ==
    CASE op = "lt" -> NumLt(a, b)
      [] op = "gt" -> NumLt(b, a)
      [] op = "lte" -> ~NumLt(b, a)
      [] op = "gte" -> ~NumLt(a, b)

\* a OP b on two str
StrCompare(op, a, b) ==
    CASE op = "lt" -> StrLt(a, b)
      [] op = "gt" -> StrLt(b, a)
      [] op = "lte" -> ~StrLt(b, a)
      [] op = "gte" -> ~StrLt(a, b)

\* float(val) and float(value) both succeed
BothNumbers(val, value) == ParseFloat(val).k # "error" /\ Float(value).k # "error"

\* try: float(val) OP float(value)  except (ValueError, TypeError): str OP str
OrderedOrText(op, val, value) ==
    IF BothNumbers(val, value) THEN NumCompare(op, ParseFloat(val), Float(value))
    ELSE StrCompare(op, val, Str(value))

\* try: float(val) OP float(value)  except (ValueError, TypeError): return False
OrderedOrFalse(op, val, value) ==
    BothNumbers(val, value) /\ NumCompare(op, ParseFloat(val), Float(value))

\* FilterExpr.match(row)
match(expr, row) ==
    LET val == Get(row, expr.field, <<>>)
    IN CASE expr.op = "eq" ->
                IF expr.value = PyNone THEN val = <<>> \/ val = NoneText
                ELSE val = Str(expr.value)
         [] expr.op = "ne" ->
                IF expr.value = PyNone THEN val # <<>> /\ val # NoneText
                ELSE val # Str(expr.value)
         [] expr.op \in {"lt", "gt", "lte", "gte"} -> OrderedOrText(expr.op, val, expr.value)
         [] expr.op = "startswith" -> StartsWith(val, Str(expr.value))
         [] OTHER -> FALSE

HasOp(ops, name) == \E i \in 1..Len(ops.items) : ops.items[i][1] = name

OpValue(ops, name) == ops.items[CHOOSE i \in 1..Len(ops.items) : ops.items[i][1] = name][2]

\* lines 93-125: the operators of an operator dict that the code knows
MatchOps(ops, cell_val) ==
    /\ HasOp(ops, "$gte") => OrderedOrText("gte", cell_val, OpValue(ops, "$gte"))
    /\ HasOp(ops, "$lte") => OrderedOrText("lte", cell_val, OpValue(ops, "$lte"))
    /\ HasOp(ops, "$gt") => OrderedOrFalse("gt", cell_val, OpValue(ops, "$gt"))
    /\ HasOp(ops, "$lt") => OrderedOrFalse("lt", cell_val, OpValue(ops, "$lt"))

\* lines 129-136
MatchEquality(value, cell_val) ==
    IF value = PyNone THEN cell_val = <<>> \/ cell_val = NoneText
    ELSE cell_val = Str(value)

\* parse_dict_query(query)(row)
RECURSIVE parse_dict_query(_, _)
parse_dict_query(query, row) ==
    \A i \in 1..Len(query.items) :
        LET key == query.items[i][1]
            value == query.items[i][2]
        IN IF key = "$or"
           THEN \E j \in 1..Len(value) : parse_dict_query(value[j], row)
           ELSE LET cell_val == Get(row, key, <<>>)
                IN IF "t" \in DOMAIN value /\ value.t = "ops" THEN MatchOps(value, cell_val)
                   ELSE IF "kind" \in DOMAIN value THEN match(value, row)
                   ELSE MatchEquality(value, cell_val)

\* f(row) for one of the filters build_filter_from_args collected
CallFilter(f, row) ==
    CASE f.kind = "expr" -> match(f, row)
      [] f.kind = "dict" -> parse_dict_query(f, row)
      [] f.kind = "callable" -> f.field \in DOMAIN row /\ row[f.field] = f.text

RECURSIVE Collect(_)
Collect(args) ==
    IF args = <<>> THEN <<>>
    ELSE IF args[1].kind \in {"expr", "dict", "callable"} THEN <<args[1]>> \o Collect(Tail(args))
    ELSE Collect(Tail(args))

\* build_filter_from_args(args): None, or the filters combined() goes through
build_filter_from_args(args) ==
    IF args = <<>> THEN None
    ELSE IF Collect(args) = <<>> THEN None
    ELSE [filters |-> Collect(args)]

combined_Any(filter_fn, row) ==
    \E i \in 1..Len(filter_fn.filters) : CallFilter(filter_fn.filters[i], row)

\* lines 160-161
combined(filter_fn, row) ==
    \A i \in 1..Len(filter_fn.filters) : CallFilter(filter_fn.filters[i], row)

\* SheetsDBService.find / find_one on one record: kept when there is no
\* filter or the filter accepts it
Accepts(filter_fn, row) == filter_fn = None \/ combined(filter_fn, row)

(* One call of find or find_one: every argument list against every record *)

FilterValues ==
    {PyNone, PyBool(TRUE), PyBool(FALSE), PyInt(10), PyInt(2), PyFloat(Finite(50)),
     PyStr(<<"a", "b">>), PyStr(<<"1", "0">>)}

\* cell texts of the column v
FilterCells ==
    {<<>>, <<"T", "r", "u", "e">>, <<"t", "r", "u", "e">>, <<"1">>,
     <<"F", "a", "l", "s", "e">>, <<"f", "a", "l", "s", "e">>, <<"0">>,
     <<"1", "0", ".", "0">>, <<"1", "0">>, <<"5">>, <<"2">>,
     <<"a", "b">>, <<"b">>, NoneText}

\* records with and without the columns v and w
FilterRows ==
    LET ids == ("_id" :> <<"a", "1">>)
        vs == {ids} \cup {ids @@ ("v" :> text) : text \in FilterCells}
    IN vs \cup {r @@ ("w" :> <<"x">>) : r \in vs}

ExprOps == {"eq", "ne", "lt", "gt", "lte", "gte", "startswith"}

DictOps == {"$ne", "$lt", "$gt", "$lte", "$gte"}

\* one filter on the column v, in each form
FiltersOnV ==
    {FilterExpr("v", op, value) : op \in ExprOps, value \in FilterValues}
        \cup {DictQuery(<< <<"v", value>> >>) : value \in FilterValues}
        \cup {DictQuery(<< <<"v", OpDict(<< <<op, value>> >>)>> >>) :
                op \in DictOps, value \in FilterValues}

\* arguments of the three kinds, on v and on w, and one that is no filter
MixedArgs ==
    {FilterExpr("v", "eq", PyStr(<<"a", "b">>)),
     DictQuery(<< <<"w", PyStr(<<"x">>)>> >>),
     DictQuery(<< <<"v", FilterExpr("v", "gt", PyInt(2))>>, <<"w", PyStr(<<"x">>)>> >>),
     DictQuery(<< <<"$or", << DictQuery(<< <<"v", PyInt(2)>> >>),
                              DictQuery(<< <<"w", PyStr(<<"x">>)>> >>) >> >> >>),
     Lambda("w", <<"x">>),
     NotAFilter}

ArgLists ==
    {<<>>} \cup {<<f>> : f \in FiltersOnV \cup MixedArgs}
        \cup {<<f, g>> : f, g \in MixedArgs}

\* filter_fn = build_filter_from_args(args)
BuildFilter ==
    /\ doc.pc = "args"
    /\ doc' = [doc EXCEPT !.pc = "built", !.filter_fn = build_filter_from_args(doc.args)]
    /\ UNCHANGED <<db, sheet, off, uuid_n, last, retry_vars, boot, hs, held>>

\* db.find(tab, filter_fn) / db.find_one(tab, filter_fn) reaching the record
ApplyFilter ==
    /\ doc.pc = "built"
    /\ doc' = [doc EXCEPT !.pc = "applied", !.accepted = Accepts(doc.filter_fn, doc.row)]
    /\ UNCHANGED <<db, sheet, off, uuid_n, last, retry_vars, boot, hs, held>>

NextFilter == BuildFilter \/ ApplyFilter

InitFilter ==
    /\ db = NewService(TRUE)
    /\ sheet = EmptyDict
    /\ off = NewService(TRUE)
    /\ uuid_n = 0
    /\ last = NoCall
    /\ r_script = <<>>
    /\ rt = RetryStart
    /\ boot = NoBoot
    /\ hs = NoHandlers
    /\ held = NoHeld
    /\ \E args \in ArgLists, row \in FilterRows :
          doc = [pc |-> "args", args |-> args, row |-> row, filter_fn |-> None,
                 accepted |-> FALSE]

SpecFilter == InitFilter /\ [][NextFilter]_vars

-----------------------------------------------------------------------------
(* SheetQuery: the cursor find returns.  limit_n is None until limit() is    *)
(* called (limited is FALSE); a sort_field of None is the empty text.        *)

SheetQuery(model_class, results) ==
    [model_class |-> model_class, results |-> results, skip_n |-> 0,
     limited |-> FALSE, limit_n |-> 0, sort_field |-> <<>>, sort_reverse |-> FALSE]

skip(q, n) == [q EXCEPT !.skip_n = n]

limit(q, n) == [q EXCEPT !.limited = TRUE, !.limit_n = n]

sort(q, field) ==
    IF StartsWith(field, <<"-">>)
    THEN [q EXCEPT !.sort_field = Tail(field), !.sort_reverse = TRUE]
    ELSE IF StartsWith(field, <<"+">>)
    THEN [q EXCEPT !.sort_field = Tail(field), !.sort_reverse = FALSE]
    ELSE [q EXCEPT !.sort_field = field, !.sort_reverse = FALSE]

\* the column a field name stands for; those of the model are one character long
Column(field) == field[1]

\* lines 46-54: '' for an empty cell, a float where the cell parses, else the str
sort_key(q, row) ==
    LET val == Get(row, Column(q.sort_field), <<>>)
    IN IF val = <<>> THEN [k |-> "str", s |-> <<>>, f |-> Finite(0)]
       ELSE IF ParseFloat(val).k # "error" THEN [k |-> "float", s |-> <<>>, f |-> ParseFloat(val)]
       ELSE [k |-> "str", s |-> val, f |-> Finite(0)]

\* a < b on two keys of one type
KeyLt(a, b) == IF a.k = "float" THEN NumLt(a.f, b.f) ELSE StrLt(a.s, b.s)

\* list.sort compares a float with a str (TypeError) exactly when both occur
Comparable(q, data) ==
    \A i, j \in 1..Len(data) : sort_key(q, data[i]).k = sort_key(q, data[j]).k

Reverse(s) == [i \in 1..Len(s) |-> s[Len(s) + 1 - i]]

\* x put behind the elements of a sorted list that are not greater than it
InsertByKey(q, sorted, x) ==
    LET n == Cardinality({i \in 1..Len(sorted) :
                             ~KeyLt(sort_key(q, x), sort_key(q, sorted[i]))})
    IN SubSeq(sorted, 1, n) \o <<x>> \o SubSeq(sorted, n + 1, Len(sorted))

\* a stable sort by key
RECURSIVE StableSort(_, _)
StableSort(q, data) ==
    IF data = <<>> THEN <<>>
    ELSE InsertByKey(q, StableSort(q, SubSeq(data, 1, Len(data) - 1)), data[Len(data)])

\* data.sort(key=sort_key, reverse=...): with reverse the list is reversed,
\* sorted and reversed again, which keeps equal keys in their original order
ListSort(q, data) ==
    IF q.sort_reverse THEN Reverse(StableSort(q, Reverse(data))) ELSE StableSort(q, data)

Min(a, b) == IF a < b THEN a ELSE b

\* data[:n]
Take(s, n) == SubSeq(s, 1, Min(n, Len(s)))

\* _apply: [raised, data]
_apply(q) ==
    LET sorts == q.sort_field # <<>>
        sorted == IF sorts THEN ListSort(q, q.results) ELSE q.results
        skipped == IF q.skip_n # 0 THEN Drop(sorted, q.skip_n) ELSE sorted
        limited == IF q.limited THEN Take(skipped, q.limit_n) ELSE skipped
    IN IF sorts /\ ~Comparable(q, q.results) THEN [raised |-> TRUE, data |-> <<>>]
       ELSE [raised |-> FALSE, data |-> limited]

\* line 67: the records of the rows, each through _from_row
FromRows(cls, data) == [i \in 1..Len(data) |-> _from_row(cls, data[i])]

\* the list to_list returns, unless _apply or one _from_row raised
Listed(raised, items) ==
    IF raised \/ \E i \in 1..Len(items) : items[i].raised
    THEN [raised |-> TRUE, items |-> <<>>]
    ELSE [raised |-> FALSE, items |-> [i \in 1..Len(items) |-> items[i].v]]

ListedOf(cls, applied) == Listed(applied.raised, FromRows(cls, applied.data))

\* to_list: [raised, items]
to_list(q) == ListedOf(q.model_class, _apply(q))

(* One cursor: find, then skip, limit and sort each at most once and in any  *)
(* order, then to_list                                                       *)

MaxMixedRows == 2     \* records of a table whose cells hold any text
MaxCursorRows == 5    \* records of a table whose cells hold numbers
MaxSkip == 2          \* largest argument of skip and of limit

\* the class of the table: f: Optional[str] = None
CursorClass == [shape |-> "str", ann |-> Ann("str", TRUE), default |-> PyNone]

SortCells == {<<>>, <<"2">>, <<"1", "0">>, <<"b">>, <<"a", "b">>}

NumberCells == {<<"2">>, <<"1", "0">>}

\* identifiers of the records, by position in the table
RecordIds == <<"a", "b", "e", "f", "i", "k", "l">>

CursorRow(i, text) == ("_id" :> <<RecordIds[i]>>) @@ ("f" :> text)

\* the records find matched, in cache order
CursorTables ==
    UNION {{[i \in 1..n |-> CursorRow(i, cells[i])] : cells \in [1..n -> SortCells]} :
              n \in 0..MaxMixedRows}
      \cup UNION {{[i \in 1..n |-> CursorRow(i, cells[i])] : cells \in [1..n -> NumberCells]} :
                     n \in (MaxMixedRows + 1)..MaxCursorRows}

SortArgs == {<<"f">>, <<"-", "f">>, <<"+", "f">>}

Called(name) == \E i \in 1..Len(doc.calls) : doc.calls[i][1] = name

Skip(n) ==
    /\ doc.pc = "cursor"
    /\ ~Called("skip")
    /\ doc' = [doc EXCEPT !.q = skip(doc.q, n), !.calls = Append(@, <<"skip", n>>)]
    /\ UNCHANGED <<db, sheet, off, uuid_n, last, retry_vars, boot, hs, held>>

Limit(n) ==
    /\ doc.pc = "cursor"
    /\ ~Called("limit")
    /\ doc' = [doc EXCEPT !.q = limit(doc.q, n), !.calls = Append(@, <<"limit", n>>)]
    /\ UNCHANGED <<db, sheet, off, uuid_n, last, retry_vars, boot, hs, held>>

Sort(field) ==
    /\ doc.pc = "cursor"
    /\ ~Called("sort")
    /\ doc' = [doc EXCEPT !.q = sort(doc.q, field), !.calls = Append(@, <<"sort", field>>)]
    /\ UNCHANGED <<db, sheet, off, uuid_n, last, retry_vars, boot, hs, held>>

ToList ==
    /\ doc.pc = "cursor"
    /\ doc' = [doc EXCEPT !.pc = "listed", !.out = to_list(doc.q)]
    /\ UNCHANGED <<db, sheet, off, uuid_n, last, retry_vars, boot, hs, held>>

NextCursor ==
    \/ \E n \in 0..MaxSkip : Skip(n)
    \/ \E n \in 0..MaxSkip : Limit(n)
    \/ \E field \in SortArgs : Sort(field)
    \/ ToList

InitCursor ==
    /\ db = NewService(TRUE)
    /\ sheet = EmptyDict
    /\ off = NewService(TRUE)
    /\ uuid_n = 0
    /\ last = NoCall
    /\ r_script = <<>>
    /\ rt = RetryStart
    /\ boot = NoBoot
    /\ hs = NoHandlers
    /\ held = NoHeld
    /\ \E results \in CursorTables :
          doc = [pc |-> "cursor", q |-> SheetQuery(CursorClass, results), calls |-> <<>>,
                 out |-> [raised |-> FALSE, items |-> <<>>]]

SpecCursor == InitCursor /\ [][NextCursor]_vars

-----------------------------------------------------------------------------
(* Identifiers.  uuid.uuid4() is taken to return a value that no earlier draw *)
(* returned and that no caller holds before it is drawn: the k-th draw is     *)
(* uuid4(k).  Rows are inserted without an identifier or with any identifier  *)
(* that exists so far, on a connected and on a demo-mode service, with        *)
(* deletes and reloads in between.                                            *)

MaxIds == 3         \* uuid4() draws before id-less inserts stop
MaxIdRows == 2      \* rows of the table before inserts stop

\* the identifiers that exist after n draws: those callers make up and those
\* drawn; a record that is or ever was in a table carries one of them
Known(n) == Ids \cup {uuid4(k) : k \in 1..n}

\* the rows a caller may pass after n draws
IdRows(n) == [_id : Known(n) \cup {""}, v : {"x"}, w : WVals]

IdBatches(n) == UNION {[1..k -> IdRows(n)] : k \in 0..MaxBatch}

\* what the call was given and what it returned, row by row
InsertCall(op, given, ret) == [op |-> op, id |-> "", given |-> given, ret |-> ret]

IdInsert(tab, row, oc) ==
    /\ Len(Rows(db, tab)) < MaxIdRows
    /\ GridLen(tab) < MaxSheetRows
    /\ NeedsId(row) => uuid_n < MaxIds
    /\ LET r == insert(db, sheet, tab, row, uuid_n, oc)
       IN /\ db' = r.svc
          /\ sheet' = r.sheet
          /\ uuid_n' = r.n
          /\ last' = InsertCall("insert", <<row>>, <<r.ret>>)
    /\ UNCHANGED <<off, idle_vars>>

IdInsertMany(tab, rows, oc) ==
    /\ Len(Rows(db, tab)) + Len(rows) <= MaxIdRows
    /\ GridLen(tab) < MaxSheetRows
    /\ uuid_n + NumNeedId(rows) <= MaxIds
    /\ LET r == insert_many(db, sheet, tab, rows, uuid_n, oc)
       IN /\ db' = r.svc
          /\ sheet' = r.sheet
          /\ uuid_n' = r.n
          /\ last' = InsertCall("insert_many", rows, r.ret)
    /\ UNCHANGED <<off, idle_vars>>

NextIds ==
    \/ \E tab \in Tabs, row \in IdRows(uuid_n), oc \in RetryOutcomes :
          IdInsert(tab, row, oc)
    \/ \E tab \in Tabs, rows \in IdBatches(uuid_n), oc \in RetryOutcomes :
          IdInsertMany(tab, rows, oc)
    \/ \E tab \in Tabs, doc_id \in Known(uuid_n), oc \in RetryOutcomes :
          Delete(tab, doc_id, oc) /\ UNCHANGED <<off, idle_vars>>
    \/ \E tab \in Tabs :
          Load(tab, "ok") /\ UNCHANGED <<off, idle_vars>>

InitIds ==
    /\ \E demo \in BOOLEAN, tab \in Tabs :
          LET r == ensure_tab(NewService(demo), EmptyDict, tab, HeaderList,
                              "returned", "returned")
          IN db = r.svc /\ sheet = r.sheet
    /\ off = NewService(TRUE)
    /\ uuid_n = 0
    /\ last = NoCall
    /\ r_script = [i \in 1..(max_retries + 2) |-> "ok"]
    /\ rt = RetryStart
    /\ boot = NoBoot
    /\ hs = NoHandlers
    /\ held = NoHeld
    /\ doc = NoDoc

SpecIds == InitIds /\ [][NextIds]_vars

-----------------------------------------------------------------------------
(* count on a cursor.  The cursor is built by SheetDocument.find from the     *)
(* arguments of the call and the table's cache; skip, limit and sort are set  *)
(* on it and count is called, in any order.                                   *)

MaxCountRows == 3    \* records of the table find looks through
MaxCounts == 2       \* calls of count on one cursor

\* SheetDocument.find, lines 120-126: table is the cache of the class's tab
SheetDocument_find(cls, table, args) ==
    LET filter_fn == build_filter_from_args(args)
    IN SheetQuery(cls, SelectSeq(table, LAMBDA row : Accepts(filter_fn, row)))

\* SheetQuery.count, lines 70-72
SheetQuery_count_Applied(q) == Len(_apply(q).data)

SheetQuery_count(q) == Len(q.results)

CountCells == {<<"2">>, <<"1", "0">>, <<"a", "b">>}

CountRow(i, text) == ("_id" :> <<RecordIds[i]>>) @@ ("v" :> text)

CountTables ==
    UNION {{[i \in 1..n |-> CountRow(i, cells[i])] : cells \in [1..n -> CountCells]} :
              n \in 0..MaxCountRows}

\* the arguments of find: none, one filter of either form, two filters
CountArgs ==
    {<<>>,
     <<FilterExpr("v", "gte", PyInt(2))>>,
     <<DictQuery(<< <<"v", PyStr(<<"a", "b">>)>> >>)>>,
     <<FilterExpr("v", "ne", PyStr(<<"a", "b">>)), DictQuery(<< <<"v", PyInt(10)>> >>)>>}

NoCount == -1

NumCalled(name) == Cardinality({i \in 1..Len(doc.calls) : doc.calls[i][1] = name})

Count ==
    /\ doc.pc = "cursor"
    /\ NumCalled("count") < MaxCounts
    /\ doc' = [doc EXCEPT !.out = SheetQuery_count(doc.q),
                          !.calls = Append(@, <<"count", Len(doc.calls)>>)]
    /\ UNCHANGED <<db, sheet, off, uuid_n, last, retry_vars, boot, hs, held>>

NextCount ==
    \/ \E n \in 0..MaxSkip : Skip(n)
    \/ \E n \in 0..MaxSkip : Limit(n)
    \/ \E field \in {<<"v">>, <<"-", "v">>} : Sort(field)
    \/ Count

InitCount ==
    /\ db = NewService(TRUE)
    /\ sheet = EmptyDict
    /\ off = NewService(TRUE)
    /\ uuid_n = 0
    /\ last = NoCall
    /\ r_script = <<>>
    /\ rt = RetryStart
    /\ boot = NoBoot
    /\ hs = NoHandlers
    /\ held = NoHeld
    /\ \E table \in CountTables, args \in CountArgs :
          doc = [pc |-> "cursor", table |-> table, args |-> args,
                 q |-> SheetDocument_find(CursorClass, table, args), calls |-> <<>>,
                 out |-> NoCount]

SpecCount == InitCount /\ [][NextCount]_vars

-----------------------------------------------------------------------------
(* The entity classes (models/*.py) and the table each one reads and writes.  *)
(* A class body holds the nested classes it declares; SheetSettings is looked *)
(* up on the class and, when the class declares none, found on SheetDocument. *)

EntityTypes ==
    {"Category", "Brand", "Season", "Color", "Size", "Product", "Warehouse",
     "Permission", "Role", "StockMovement", "StockTransfer"}

\* the nested settings class each entity class declares, and the name in it
Declared ==
    [Category |-> [SheetSettings |-> "_md_categories"],
     Brand |-> [SheetSettings |-> "_md_brands"],
     Season |-> [SheetSettings |-> "_md_seasons"],
     Color |-> [SheetSettings |-> "_md_colors"],
     Size |-> [SheetSettings |-> "_md_sizes"],
     Product |-> [SheetSettings |-> "_products"],
     Warehouse |-> [SheetSettings |-> "_warehouses"],
     Permission |-> [Settings |-> "permissions"],
     Role |-> [Settings |-> "roles"],
     StockMovement |-> [Settings |-> "_stock_movements"],
     StockTransfer |-> [Settings |-> "_transfers"]]

\* SheetDocument.SheetSettings.tab_name, lines 44-45
BaseTabName == ""

\* _get_tab, lines 55-57: cls.SheetSettings.tab_name
_get_tab(cls) ==
    IF "SheetSettings" \in DOMAIN Declared[cls] THEN Declared[cls].SheetSettings
    ELSE BaseTabName

\* the classes whose records the model saves and reads
SavedTypes == {"Permission", "Role", "StockMovement", "StockTransfer", "Warehouse"}

\* fields declared without a default
RequiredFields ==
    [Permission |-> {"code", "module", "action", "name"},
     Role |-> {"name", "slug"},
     StockMovement |-> {"variant", "warehouse", "movement_type", "quantity"},
     StockTransfer |-> {"transfer_number", "from_warehouse", "to_warehouse"},
     Warehouse |-> {"code", "name"}]

\* Optional fields whose default is None
OptionalFields ==
    [Permission |-> {"description"},
     Role |-> {"description", "parent_role", "created_by"},
     StockMovement |-> {"reference", "before_quantity", "after_quantity", "unit_cost",
                        "notes", "created_by"},
     StockTransfer |-> {"notes", "created_by", "approved_by", "approved_at",
                        "shipped_at", "received_at"},
     Warehouse |-> {}]

\* fields with a default that is not None
DefaultedFields ==
    [Permission |-> {"category", "is_system", "is_active"},
     Role |-> {"permission_ids", "permission_codes", "level", "warehouse_access",
               "data_scope", "dashboard", "is_system", "is_active", "created_at",
               "updated_at"},
     StockMovement |-> {"created_at"},
     StockTransfer |-> {"status", "items", "created_at", "updated_at"},
     Warehouse |-> {"address", "contact", "locations", "is_active", "is_default",
                    "created_at", "updated_at"}]

FieldsOf(cls) == RequiredFields[cls] \cup OptionalFields[cls] \cup DefaultedFields[cls]

\* the cell of a field of a new entity: '' for None, some text otherwise
CellOf(cls, field) == IF field \in OptionalFields[cls] THEN "" ELSE "x"

\* _from_row of a class on a row, lines 68-94, as far as the required fields
\* decide it: a required field that is no column of the row is None in the
\* first model_validate and absent in the second, and both raise
FromRowRaises(cls, row) == \E field \in RequiredFields[cls] : field \notin DOMAIN row

\* the entities a read returns for the rows the service handed back: the read
\* raises when _from_row raises on one of them
ReadResult(cls, rows) ==
    IF \E i \in 1..Len(rows) : FromRowRaises(cls, rows[i])
    THEN [raised |-> TRUE, items |-> <<>>]
    ELSE [raised |-> FALSE,
          items |-> [i \in 1..Len(rows) |-> [cls |-> cls, row |-> rows[i]]]]

-----------------------------------------------------------------------------
(* SheetDocument.save.  An entity of the model class has the fields id, v and *)
(* w; an id of None or '' (both false for `not self.id`) is the empty text.   *)
(* A caller holds one entity at a time: it makes a new one, or one with the   *)
(* identifier of a stored record, changes its fields and saves it, any number *)
(* of times.                                                                  *)

MaxSaved == 3       \* records of the table before saves of new entities stop

\* the row SheetDocument._to_row builds (lines 96-107): '_id' from self.id and
\* one cell per other field; an entity of the model class has the fields v and
\* w, one of a declared class (cls) the fields of that class
RowOf(entity) ==
    IF "cls" \in DOMAIN entity
    THEN [h \in {"_id"} \cup FieldsOf(entity.cls) |->
             IF h = "_id" THEN entity.id ELSE CellOf(entity.cls, h)]
    ELSE [_id |-> entity.id, v |-> entity.v, w |-> entity.w]

\* lines 149-150: draw an identifier when the entity has none
SavedEntity(entity, n) ==
    IF entity.id = "" THEN [entity EXCEPT !.id = uuid4(n + 1)] ELSE entity

\* slip: the row is inserted whether or not its identifier is stored
save_AlwaysInserts(svc, sh, tab, entity, n, oc) ==
    LET self == SavedEntity(entity, n)
        r == insert(svc, sh, tab, RowOf(self), n, oc)
    IN [svc |-> r.svc, sheet |-> r.sheet, self |-> self, existing |-> FALSE,
        n |-> IF entity.id = "" THEN n + 1 ELSE n]

\* SheetDocument.save, lines 144-160
save(svc, sh, tab, entity, n, oc) ==
    LET self == SavedEntity(entity, n)
        row == RowOf(self)
        existing == get_by_id(svc, tab, self.id)
        r == IF existing # None
             THEN update(svc, sh, tab, self.id, row, oc)
             ELSE insert(svc, sh, tab, row, n, oc)
    IN [svc |-> r.svc, sheet |-> r.sheet, self |-> self, existing |-> existing # None,
        n |-> IF entity.id = "" THEN n + 1 ELSE n]

\* the entities a caller can make after n draws
SaveEntities(n) == [id : Known(n) \cup {""}, v : Vals, w : WVals]

\* the caller takes an entity in hand
NewEntity(entity) ==
    /\ doc' = [pc |-> "entity", entity |-> entity, saved |-> FALSE]
    /\ UNCHANGED <<db, sheet, off, uuid_n, last, retry_vars, boot, hs, held>>

\* the caller sets a field of the entity in hand to another value
ChangeEntity(v) ==
    /\ doc.pc = "entity"
    /\ doc.entity.v # v
    /\ doc' = [doc EXCEPT !.entity.v = v, !.saved = FALSE]
    /\ UNCHANGED <<db, sheet, off, uuid_n, last, retry_vars, boot, hs, held>>

Save(tab, oc) ==
    /\ doc.pc = "entity"
    /\ doc.entity.id = "" => uuid_n < MaxIds
    /\ get_by_id(db, tab, doc.entity.id) = None => Len(Rows(db, tab)) < MaxSaved
    /\ LET r == save(db, sheet, tab, doc.entity, uuid_n, oc)
       IN /\ db' = r.svc
          /\ sheet' = r.sheet
          /\ uuid_n' = r.n
          /\ doc' = [doc EXCEPT !.entity = r.self, !.saved = TRUE]
          /\ last' = [op |-> "save", id |-> r.self.id, existing |-> r.existing]
    /\ UNCHANGED <<off, retry_vars, boot, hs, held>>

NextSave ==
    \/ \E entity \in SaveEntities(uuid_n) : NewEntity(entity)
    \/ \E v \in Vals : ChangeEntity(v)
    \/ \E tab \in Tabs, oc \in RetryOutcomes : Save(tab, oc)

InitSave ==
    /\ \E demo \in BOOLEAN, tab \in Tabs :
          LET r == ensure_tab(NewService(demo), EmptyDict, tab, HeaderList,
                              "returned", "returned")
          IN db = r.svc /\ sheet = r.sheet
    /\ off = NewService(TRUE)
    /\ uuid_n = 0
    /\ last = NoCall
    /\ r_script = [i \in 1..(max_retries + 2) |-> "ok"]
    /\ rt = RetryStart
    /\ boot = NoBoot
    /\ hs = NoHandlers
    /\ held = NoHeld
    /\ doc = NoDoc

SpecSave == InitSave /\ [][NextSave]_vars

-----------------------------------------------------------------------------
(* Entities of several classes saved and read through their classes, on a     *)
(* connected and on a demo-mode service.                                      *)

MaxTypeRows == 2    \* records of one table before saves of new entities stop

SaveAs(cls, id, oc) ==
    /\ id = "" => uuid_n < MaxGen
    /\ get_by_id(db, _get_tab(cls), id) = None => Len(Rows(db, _get_tab(cls))) < MaxTypeRows
    /\ LET r == save(db, sheet, _get_tab(cls), [id |-> id, cls |-> cls], uuid_n, oc)
       IN /\ db' = r.svc
          /\ sheet' = r.sheet
          /\ uuid_n' = r.n
    /\ UNCHANGED <<off, last, idle_vars>>

\* the read in hand: the class, the rows the service handed back, the result
ReadAs(op, cls, rows) ==
    /\ doc' = [pc |-> "read", op |-> op, cls |-> cls, rows |-> rows,
               out |-> ReadResult(cls, rows)]
    /\ UNCHANGED <<db, sheet, off, uuid_n, last, retry_vars, boot, hs, held>>

\* SheetDocument.get, lines 135-140
GetAs(cls, id) ==
    LET row == get_by_id(db, _get_tab(cls), id)
    IN ReadAs("get", cls, IF row = None THEN <<>> ELSE <<row>>)

\* SheetDocument.find_one without a filter, lines 113-117: the first row
FindOneAs(cls) ==
    LET rows == find_all(db, _get_tab(cls))
    IN ReadAs("find_one", cls, IF rows = <<>> THEN <<>> ELSE <<rows[1]>>)

\* SheetDocument.find without a filter and to_list, lines 120-126
FindAs(cls) == ReadAs("find", cls, find_all(db, _get_tab(cls)))

NextTables ==
    \/ \E cls \in SavedTypes, id \in Known(uuid_n) \cup {""}, oc \in RetryOutcomes :
          SaveAs(cls, id, oc)
    \/ \E cls \in SavedTypes, id \in Known(uuid_n) : GetAs(cls, id)
    \/ \E cls \in SavedTypes : FindOneAs(cls)
    \/ \E cls \in SavedTypes : FindAs(cls)

InitTables ==
    /\ db \in {NewService(TRUE), NewService(FALSE)}
    /\ off = NewService(TRUE)
    /\ sheet = EmptyDict
    /\ uuid_n = 0
    /\ last = NoCall
    /\ r_script = [i \in 1..(max_retries + 2) |-> "ok"]
    /\ rt = RetryStart
    /\ boot = NoBoot
    /\ hs = NoHandlers
    /\ held = NoHeld
    /\ doc = NoDoc

SpecTables == InitTables /\ [][NextTables]_vars


-----------------------------------------------------------------------------
(* services/bom_sheets_service.py: SheetsService, the BOM database sheets    *)
(*                                                                          *)
(* The BOM service keeps three sheets of its own spreadsheet: BOM_INDEX     *)
(* (one row per BOM, columns A..P), BOM_DATA (one PLANNING row per combo    *)
(* followed by its BOM_LINE rows, columns A..Y) and DPLAN_INDEX (one row    *)
(* per dyeing plan, columns A..F).  In SpecBom the variable sheet holds     *)
(* that spreadsheet, held the combos each uid was last saved with, and last *)
(* the call that has just returned.  Every cell is the text values.get      *)
(* hands back; a number written with USER_ENTERED comes back as its decimal *)
(* text and a boolean as TRUE or FALSE.  The service is connected           *)
(* (demo_mode False) and every remote call succeeds.  The article tab that  *)
(* save_bom_to_tab rewrites (line 699, inside try/except) is another sheet  *)
(* and is left out.                                                         *)

MaxBoms == 2          \* BOMs created before save_bom_full(None, ...) stops
MaxDataRows == 2      \* BOM_DATA rows below the header before saving stops
MaxNumber == 50       \* largest number a cell text is read back as

BOM_INDEX_HEADERS ==
    <<"BOM_UID", "ART_NO", "SET_NO", "SEASON", "BUYER", "PLAN_DATE", "PLAN_QTY",
      "REMARKS", "COMBO_COUNT", "LINE_COUNT", "STATUS", "DPLAN_NO", "SHEET_NAME",
      "CREATED_AT", "UPDATED_AT", "CREATED_BY">>

BOM_DATA_HEADERS ==
    <<"BOM_UID", "ROW_TYPE", "COMBO_SR_NO", "COMBO_NAME", "LOT_NO", "LOT_COUNT",
      "COLOR_ID", "COLOR_CODE", "COLOR_NAME", "PLAN_QTY",
      "FABRIC_QUALITY", "FC_NO", "PLAN_RAT_GSM", "PRIORITY", "COMPONENT", "AVG",
      "UNIT", "EXTRA_PCT", "WASTAGE_PCT", "SHORTAGE_PCT",
      "READY_FABRIC_NEED", "GREIGE_FABRIC_NEED", "NO_OF_ROLLS",
      "GREIGE_IS_MANUAL", "LINE_ORDER">>

DPLAN_INDEX_HEADERS ==
    <<"DPLAN_NO", "BOM_COUNT", "TOTAL_QTY", "CREATED_AT", "CREATED_BY", "NOTES">>

\* ensure_db_sheets, lines 528-555: each sheet is created with its header row
EnsuredBomSheets == [BOM_INDEX |-> <<BOM_INDEX_HEADERS>>,
                     BOM_DATA |-> <<BOM_DATA_HEADERS>>,
                     DPLAN_INDEX |-> <<DPLAN_INDEX_HEADERS>>]

\* datetime.now(): one instant stands for every clock reading
BomNow == "2026-01-01T00:00:00"
BomPrefix == "BOM-20260101-"          \* f'BOM-{date_str}-', line 561
BomUser == "webapp_user"

\* a number cell as values.get returns it, and float()/int() of such a text
NumCell(n) == ToString(n)
BoolCell(b) == IF b THEN "TRUE" ELSE "FALSE"
FloatOf(text) == CHOOSE n \in 0..MaxNumber : NumCell(n) = text

\* str.zfill(width)
RECURSIVE zfill(_, _)
zfill(text, width) == IF Len(text) >= width THEN text ELSE zfill("0" \o text, width)

\* int(text) of a zero-padded sequence number; -1 where int() raises
SeqOf(text) ==
    IF \E n \in 0..MaxNumber : zfill(NumCell(n), Len(text)) = text /\ text # ""
    THEN CHOOSE n \in 0..MaxNumber : zfill(NumCell(n), Len(text)) = text
    ELSE -1

\* _get_values, lines 81-87: the rows of a range as values.get returns them,
\* trailing empty cells and trailing empty rows left out
_get_values(sh, tab) ==
    LET grid == TrimGrid(sh[tab])
    IN [i \in 1..Len(grid) |-> TrimRow(grid[i])]

\* values.update on one row: the cells from column col are overwritten, the
\* row growing where it was shorter
UpdRow(old, col, values) ==
    [j \in 1..(IF Len(old) > col + Len(values) - 1 THEN Len(old)
               ELSE col + Len(values) - 1) |->
        IF j >= col /\ j < col + Len(values) THEN values[j - col + 1]
        ELSE IF j <= Len(old) THEN old[j] ELSE ""]

UpdGrid(grid, row_num, col, values) ==
    [i \in 1..(IF row_num > Len(grid) THEN row_num ELSE Len(grid)) |->
        IF i = row_num
        THEN UpdRow(IF i <= Len(grid) THEN grid[i] ELSE <<>>, col, values)
        ELSE IF i <= Len(grid) THEN grid[i] ELSE <<>>]

\* _update_values, lines 89-96: overwrite the cells of one row from column col
_update_values(sh, tab, row_num, col, values) ==
    [sh EXCEPT ![tab] = UpdGrid(@, row_num, col, values)]

\* _append_values, lines 98-106: the rows go below the last row with content
_append_values(sh, tab, rows) ==
    [sh EXCEPT ![tab] = TrimGrid(sh[tab]) \o rows]

\* the cell of a row that values.get may have cut short
BomCell(row, j) == IF Len(row) >= j THEN row[j] ELSE ""

\* generate_bom_uid, lines 557-579
generate_bom_uid(sh) ==
    LET data == _get_values(sh, "BOM_INDEX")
        seqs == {SeqOf(SubSeq(data[i][1], Len(BomPrefix) + 1, Len(data[i][1]))) :
                    i \in {k \in 2..Len(data) :
                             /\ data[k] # <<>>
                             /\ Len(data[k][1]) >= Len(BomPrefix)
                             /\ SubSeq(data[k][1], 1, Len(BomPrefix)) = BomPrefix}}
        max_seq == IF seqs \cap (1..MaxNumber) = {} THEN 0
                   ELSE CHOOSE m \in seqs : \A s \in seqs : s <= m
    IN BomPrefix \o zfill(NumCell(max_seq + 1), 3)

NoUid == "<None>"       \* save_bom_full called with uid None
NoRolls == -1           \* BOMLine.no_of_rolls None

\* models/bom.py: the fields of BOMHeader, Combo and BOMLine a request sets;
\* every other field keeps its default ("" or 0, lot_count 1)
BOMHeader(art_no, plan_qty) == [art_no |-> art_no, plan_qty |-> plan_qty]

Combo(combo_sr_no, combo_name, plan_qty, bom_lines) ==
    [combo_sr_no |-> combo_sr_no, combo_name |-> combo_name,
     plan_qty |-> plan_qty, bom_lines |-> bom_lines]

BOMLine(component, avg, unit, ready, greige, rolls, manual) ==
    [component |-> component, avg |-> avg, unit |-> unit,
     ready_fabric_need |-> ready, greige_fabric_need |-> greige,
     no_of_rolls |-> rolls, greige_is_manual |-> manual]

\* save_bom_full, lines 603-620
IndexRow(uid, is_edit, header, combos) ==
    <<uid, header.art_no, "", "", "", "", NumCell(header.plan_qty), "",
      NumCell(Len(combos)),
      NumCell(SumSeq([i \in 1..Len(combos) |-> Len(combos[i].bom_lines)])),
      "UNALLOCATED", "",
      IF header.art_no # "" THEN header.art_no ELSE uid,
      IF is_edit THEN "" ELSE BomNow, BomNow,
      IF is_edit THEN "" ELSE BomUser>>

\* combo.combo_sr_no or (c_idx + 1)
SrNo(combo, c_idx) == IF combo.combo_sr_no # 0 THEN combo.combo_sr_no ELSE c_idx

\* save_bom_full, lines 637-651
PlanningRow(uid, combo, c_idx, line_order) ==
    <<uid, "PLANNING", NumCell(SrNo(combo, c_idx)), combo.combo_name, "",
      NumCell(1), "", "", "", NumCell(combo.plan_qty),
      "", "", "", "", "Planning Qnty", "", "",
      "", "", "",
      "", "", "",
      BoolCell(FALSE), NumCell(line_order)>>

\* save_bom_full, lines 654-691; extra_pcs, wastage_pcs and shortage are 0,
\* and a kg line's greige need is a multiple of 25
BomLineRow(uid, combo, c_idx, line, line_order) ==
    LET ready_need  == (combo.plan_qty + combo.plan_qty * 0 + combo.plan_qty * 0)
                          * line.avg
        manual      == line.unit = "Pcs" /\ line.greige_fabric_need # 0
        greige_need == IF manual THEN line.greige_fabric_need
                       ELSE ready_need * (1 + 0)
    IN <<uid, "BOM_LINE", NumCell(SrNo(combo, c_idx)), combo.combo_name, "",
         NumCell(1), "", "", "", "",
         "", "", "", "", line.component, NumCell(line.avg), line.unit,
         NumCell(0), NumCell(0), NumCell(0),
         NumCell(ready_need), NumCell(greige_need),
         IF line.unit = "kg" THEN NumCell(greige_need \div 25) ELSE "",
         \* is_manual_greige = line.unit == 'Pcs' and line.greige_fabric_need:
         \* False, or the number itself
         IF line.unit = "Pcs" THEN NumCell(line.greige_fabric_need)
         ELSE BoolCell(FALSE),
         NumCell(line_order)>>

\* save_bom_full, lines 631-691: new_rows
RECURSIVE NewRows(_, _, _, _)
NewRows(uid, combos, c_idx, line_order) ==
    IF c_idx > Len(combos) THEN <<>>
    ELSE LET combo == combos[c_idx]
             n     == Len(combo.bom_lines)
         IN <<PlanningRow(uid, combo, c_idx, line_order + 1)>>
            \o [k \in 1..n |->
                   BomLineRow(uid, combo, c_idx, combo.bom_lines[k],
                              line_order + 1 + k)]
            \o NewRows(uid, combos, c_idx + 1, line_order + 1 + n)

\* the first row of column A that holds uid, 0 when none does (lines 623-627)
IndexRowOf(data, uid) ==
    LET hits == {i \in 1..Len(data) : data[i] # <<>> /\ data[i][1] = uid}
    IN IF hits = {} THEN 0 ELSE CHOOSE i \in hits : \A j \in hits : i <= j

\* save_bom_full, lines 581-709, connected: the spreadsheet afterwards and
\* the uid returned
save_bom_full(sh, uid_arg, header, combos) ==
    LET is_edit == uid_arg # NoUid
        uid     == IF is_edit THEN uid_arg ELSE generate_bom_uid(sh)
        row     == IndexRow(uid, is_edit, header, combos)
        at      == IndexRowOf(_get_values(sh, "BOM_INDEX"), uid)
        sh1     == IF is_edit
                   THEN IF at = 0 THEN sh
                        ELSE _update_values(sh, "BOM_INDEX", at, 1, row)
                   ELSE _append_values(sh, "BOM_INDEX", <<row>>)
        rows    == NewRows(uid, combos, 1, 0)
    IN [sheet |-> IF rows # <<>> THEN _append_values(sh1, "BOM_DATA", rows)
                  ELSE sh1,
        uid |-> uid]

\* the number in cell j of a row, or the default where the cell is empty
NumOr(row, j, default) == IF BomCell(row, j) # "" THEN FloatOf(row[j]) ELSE default

\* load_bom_by_uid, lines 811-821 and 823-838
ComboOfRow(row) ==
    Combo(NumOr(row, 3, 1), BomCell(row, 4), NumOr(row, 10, 0), <<>>)

BOMLineOfRow(row) ==
    BOMLine(BomCell(row, 15), NumOr(row, 16, 0), BomCell(row, 17),
            NumOr(row, 21, 0), NumOr(row, 22, 0), NumOr(row, 23, NoRolls),
            \* bool(row[23]): any text but the empty one is true
            IF Len(row) > 23 THEN row[24] # "" ELSE FALSE)

\* load_bom_by_uid, lines 800-841: the rows of the uid, in sheet order; the
\* combo being filled is the last of combos
RECURSIVE LoadCombos(_, _, _, _)
LoadCombos(data, i, uid, combos) ==
    IF i > Len(data) THEN combos
    ELSE LET row == data[i]
         IN IF row = <<>> \/ row[1] # uid THEN LoadCombos(data, i + 1, uid, combos)
            ELSE IF BomCell(row, 2) = "PLANNING"
            THEN LoadCombos(data, i + 1, uid, Append(combos, ComboOfRow(row)))
            ELSE IF BomCell(row, 2) = "BOM_LINE" /\ combos # <<>>
            THEN LoadCombos(data, i + 1, uid,
                    [combos EXCEPT ![Len(combos)].bom_lines =
                        Append(@, BOMLineOfRow(row))])
            ELSE LoadCombos(data, i + 1, uid, combos)

\* load_bom_by_uid, lines 765-843, connected; found FALSE is the
\* Exception("BOM not found") of line 798
load_bom_by_uid(sh, uid) ==
    LET index_data == _get_values(sh, "BOM_INDEX")
        hits == {i \in 2..Len(index_data) :
                    index_data[i] # <<>> /\ index_data[i][1] = uid}
    IN IF hits = {} THEN [found |-> FALSE, uid |-> uid]
       ELSE LET row == index_data[CHOOSE i \in hits : \A j \in hits : i <= j]
            IN [found |-> TRUE, uid |-> uid,
                header |-> [uid |-> row[1],
                            plan_qty |-> NumOr(row, 7, 0),
                            combo_count |-> NumOr(row, 9, 0),
                            line_count |-> NumOr(row, 10, 0),
                            status |-> IF Len(row) > 10 THEN row[11]
                                       ELSE "UNALLOCATED",
                            dplan_no |-> BomCell(row, 12)],
                combos |-> LoadCombos(_get_values(sh, "BOM_DATA"), 2, uid, <<>>)]

\* the rows of BOM_INDEX (sheet row numbers from 2) whose uid is in uids
IndexHits(data, uids) ==
    {i \in 2..Len(data) : data[i] # <<>> /\ data[i][1] \in uids}

\* allocate_boms, lines 940-942, and unallocate_boms, lines 978-980: the
\* three one-cell updates K{i}, L{i} and O{i} of a hit row
MarkRow(row, status, dplan_no) ==
    [j \in 1..(IF Len(row) > 15 THEN Len(row) ELSE 15) |->
        IF j = 11 THEN status
        ELSE IF j = 12 THEN dplan_no
        ELSE IF j = 15 THEN BomNow
        ELSE IF j <= Len(row) THEN row[j] ELSE ""]

\* the loops of lines 938-942 and 976-980 over the rows read beforehand
MarkRows(sh, hits, status, dplan_no) ==
    [sh EXCEPT !.BOM_INDEX =
        [i \in 1..Len(@) |->
            IF i \in hits THEN MarkRow(@[i], status, dplan_no) ELSE @[i]]]

\* allocate_boms, lines 943-944: total_qty over the hit rows
RECURSIVE TotalQty(_, _, _)
TotalQty(data, hits, i) ==
    IF i > Len(data) THEN 0
    ELSE (IF i \in hits THEN NumOr(data[i], 7, 0) ELSE 0)
         + TotalQty(data, hits, i + 1)

\* allocate_boms, lines 919-963, connected
allocate_boms(sh, uids, dplan_no) ==
    LET data       == _get_values(sh, "BOM_INDEX")
        hits       == IndexHits(data, uids)
        allocated  == Cardinality(hits)
        total_qty  == TotalQty(data, hits, 2)
        sh1        == MarkRows(sh, hits, "ALLOCATED", dplan_no)
        dplan_data == _get_values(sh1, "DPLAN_INDEX")
        at         == {i \in 2..Len(dplan_data) :
                          dplan_data[i] # <<>> /\ dplan_data[i][1] = dplan_no}
    IN [sheet |->
           IF at # {}
           THEN _update_values(sh1, "DPLAN_INDEX",
                               CHOOSE i \in at : \A j \in at : i <= j, 2,
                               <<NumCell(allocated), NumCell(total_qty)>>)
           ELSE _append_values(sh1, "DPLAN_INDEX",
                               <<<<dplan_no, NumCell(allocated), NumCell(total_qty),
                                   BomNow, BomUser, "">>>>),
        allocated |-> allocated]

\* unallocate_boms, lines 965-983, connected
unallocate_boms(sh, uids) ==
    LET hits == IndexHits(_get_values(sh, "BOM_INDEX"), uids)
    IN [sheet |-> MarkRows(sh, hits, "UNALLOCATED", ""),
        unallocated |-> Cardinality(hits)]

\* load_dplans, lines 985-1018: the plans of DPLAN_INDEX
load_dplans(sh) ==
    LET data == _get_values(sh, "DPLAN_INDEX")
        rows == SelectSeq(Tail(data), LAMBDA row : row # <<>>)
    IN [k \in 1..Len(rows) |->
           [dplan_no |-> BomCell(rows[k], 1),
            bom_count |-> NumOr(rows[k], 2, 0),
            total_qty |-> NumOr(rows[k], 3, 0)]]

\* what the requests of the model carry
PlanNos == {"DP-1"}
PlanQtys == {1, 2}
UnknownUid == "BOM-20260101-000"

KgLine == BOMLine("body", 1, "kg", 25, 25, 1, FALSE)
PcsLine == BOMLine("rib", 1, "Pcs", 25, 30, NoRolls, TRUE)

BomCombos == {<<>>,
              <<Combo(1, "red", 25, <<>>)>>,
              <<Combo(1, "blue", 25, <<PcsLine, KgLine>>)>>}

\* the uids of BOM_INDEX
BomUids(sh) ==
    LET data == _get_values(sh, "BOM_INDEX")
    IN {data[i][1] : i \in {k \in 2..Len(data) : data[k] # <<>>}}

\* POST /bom/: save_bom_full(request.uid, request.header, request.combos)
SaveBom(uid_arg, plan_qty, combos) ==
    /\ Len(sheet.BOM_DATA) - 1 < MaxDataRows
    /\ uid_arg = NoUid => Cardinality(BomUids(sheet)) < MaxBoms
    /\ LET r == save_bom_full(sheet, uid_arg, BOMHeader("A1", plan_qty), combos)
       IN /\ sheet' = r.sheet
          /\ held' = Put(held, r.uid, combos)
          /\ last' = [op |-> "save_bom_full", uid |-> r.uid,
                      is_edit |-> uid_arg # NoUid]
    /\ UNCHANGED <<db, off, uuid_n, retry_vars, boot, hs, doc>>

\* GET /bom/{uid}: load_bom_by_uid(uid)
LoadBom(uid) ==
    /\ last' = [op |-> "load_bom_by_uid", uid |-> uid,
                bom |-> load_bom_by_uid(sheet, uid)]
    /\ UNCHANGED <<db, sheet, off, uuid_n, retry_vars, boot, hs, held, doc>>

\* POST /bom/allocate: allocate_boms(request.uids, request.dplan_no)
AllocateBoms(uids, dplan_no) ==
    /\ LET r == allocate_boms(sheet, uids, dplan_no)
       IN /\ sheet' = r.sheet
          /\ last' = [op |-> "allocate_boms", dplan_no |-> dplan_no,
                      allocated |-> r.allocated]
    /\ UNCHANGED <<db, off, uuid_n, retry_vars, boot, hs, held, doc>>

\* POST /bom/unallocate: unallocate_boms(uids)
UnallocateBoms(uids) ==
    /\ LET r == unallocate_boms(sheet, uids)
       IN /\ sheet' = r.sheet
          /\ last' = [op |-> "unallocate_boms", unallocated |-> r.unallocated]
    /\ UNCHANGED <<db, off, uuid_n, retry_vars, boot, hs, held, doc>>

NextBom ==
    \/ \E uid_arg \in BomUids(sheet) \cup {NoUid}, plan_qty \in PlanQtys,
          combos \in BomCombos : SaveBom(uid_arg, plan_qty, combos)
    \/ \E uid \in BomUids(sheet) \cup {UnknownUid} : LoadBom(uid)
    \/ \E uids \in SUBSET BomUids(sheet) \ {{}}, dplan_no \in PlanNos :
          AllocateBoms(uids, dplan_no)
    \/ \E uids \in SUBSET BomUids(sheet) \ {{}} : UnallocateBoms(uids)

InitBom ==
    /\ db = NewService(FALSE)
    /\ off = NewService(TRUE)
    /\ sheet = EnsuredBomSheets
    /\ uuid_n = 0
    /\ last = NoCall
    /\ r_script = [i \in 1..(max_retries + 2) |-> "ok"]
    /\ rt = RetryStart
    /\ boot = NoBoot
    /\ hs = NoHandlers
    /\ held = EmptyDict
    /\ doc = NoDoc

SpecBom == InitBom /\ [][NextBom]_vars

-----------------------------------------------------------------------------
(* Properties *)

TheTab == CHOOSE tab \in Tabs : TRUE

Grid(tab) == Get(sheet, tab, <<>>)

\* the spreadsheet with the tab present, so that a remote write can succeed
OkSheet(tab) == Put(sheet, tab, Grid(tab))

\* the remote write of the call is sent and takes effect
WriteApplied(svc, tab, oc) ==
    ~svc.demo_mode /\ Get(svc.headers, tab, <<>>) # <<>> /\ RemoteApplied(sheet, tab, oc)

IdsIn(rows) == {RowId(rows[i]) : i \in 1..Len(rows)}

GridIds(tab) == {Grid(tab)[i][1] : i \in {k \in 1..GridLen(tab) : Grid(tab)[k] # <<>>}}

\* C1: when the remote mirror call of insert, insert_many, update or delete
\* fails, the call does not raise and the cache is what it would have been had
\* the remote call succeeded (no rollback of the local mutation).
C1_MirrorFailureKeepsCache ==
    [][\A tab \in Tabs, oc \in RetryOutcomes :
          ~RemoteApplied(sheet, tab, oc) =>
            /\ last'.op = "insert" =>
                 \A row \in InputRows :
                    Insert(tab, row, oc) =>
                      /\ ~insert(db, sheet, tab, row, uuid_n, oc).raised
                      /\ db'.cache = insert(db, OkSheet(tab), tab, row, uuid_n,
                                            "returned").svc.cache
            /\ last'.op = "insert_many" =>
                 \A rows \in Batches :
                    InsertMany(tab, rows, oc) =>
                      /\ ~insert_many(db, sheet, tab, rows, uuid_n, oc).raised
                      /\ db'.cache = insert_many(db, OkSheet(tab), tab, rows, uuid_n,
                                                 "returned").svc.cache
            /\ last'.op = "update" =>
                 \A row \in UpdateRows(last'.id) :
                    Update(tab, last'.id, row, oc) =>
                      /\ ~update(db, sheet, tab, last'.id, row, oc).raised
                      /\ db'.cache = update(db, OkSheet(tab), tab, last'.id, row,
                                            "returned").svc.cache
            /\ last'.op = "delete" =>
                 (Delete(tab, last'.id, oc) =>
                      /\ ~delete(db, sheet, tab, last'.id, oc).raised
                      /\ db'.cache = delete(db, OkSheet(tab), tab, last'.id,
                                            "returned").svc.cache)
      ]_vars

\* C1 witness: a connected service whose tab has its header row remotely has
\* just inserted a record that is in the cache and was not written remotely.
C1_Witness ==
    /\ last.op = "insert"
    /\ ~db.demo_mode
    /\ Get(db.headers, TheTab, <<>>) = HeaderList
    /\ TheTab \in DOMAIN sheet
    /\ last.id \in IdsIn(Rows(db, TheTab))
    /\ last.id \notin GridIds(TheTab)

\* C2: an update by identifier of a cached record that changes one field makes
\* get_by_id return the record with the new value of that field and the old
\* values of all other fields; the number of records and the position of the
\* record are unchanged.
C2_UpdateAfterInsert ==
    [][\A tab \in Tabs, oc \in RetryOutcomes :
          last'.op = "update" =>
            \A row \in UpdateRows(last'.id) :
               LET doc_id == last'.id
                   old == get_by_id(db, tab, doc_id)
               IN (/\ Update(tab, doc_id, row, oc)
                   /\ old # None
                   /\ DOMAIN old = DOMAIN row
                   /\ Cardinality({f \in DOMAIN row : row[f] # old[f]}) = 1)
                  => LET new == get_by_id(db', tab, doc_id)
                     IN /\ new # None
                        /\ DOMAIN new = DOMAIN old
                        /\ \A f \in DOMAIN old :
                              new[f] = IF row[f] # old[f] THEN row[f] ELSE old[f]
                        /\ count_all(db', tab) = count_all(db, tab)
                        /\ FirstIndex(Rows(db', tab), doc_id, 1)
                              = FirstIndex(Rows(db, tab), doc_id, 1)
      ]_vars

\* C2 witness: the second of two cached records has just been updated, and
\* carries the value "y" both in the cache and in its remote row.
C2_Witness ==
    /\ last.op = "update"
    /\ ~db.demo_mode
    /\ Len(Rows(db, TheTab)) = 2
    /\ FirstIndex(Rows(db, TheTab), last.id, 1) = 2
    /\ Rows(db, TheTab)[2]["v"] = "y"
    /\ GridLen(TheTab) = 3
    /\ Grid(TheTab)[3] = <<last.id, "y", "p">>

\* C3: after delete(tab, id), get_by_id returns None and no find, find_one or
\* count result includes a record with that identifier, while every other
\* record stays in the cache unchanged and in the same relative order; the
\* identifier stays absent through every later update, delete and ensure_tab
\* (it comes back only with an insert, or when the table is read again from
\* the remote store).
C3_DeleteThenRead ==
    [][/\ \A tab \in Tabs, oc \in RetryOutcomes :
            (last'.op = "delete" /\ Delete(tab, last'.id, oc)) =>
               LET doc_id == last'.id
               IN /\ get_by_id(db', tab, doc_id) = None
                  /\ find_one(db', tab, Filter("_id", "eq", doc_id)) = None
                  /\ count(db', tab, Filter("_id", "eq", doc_id)) = 0
                  /\ doc_id \notin IdsIn(find_all(db', tab))
                  /\ \A val \in Vals :
                        doc_id \notin IdsIn(find(db', tab, Filter("v", "eq", val)))
                  /\ find_all(db', tab)
                        = find(db, tab, Filter("_id", "ne", doc_id))
       /\ \A tab \in Tabs, doc_id \in DocIds :
            (get_by_id(db, tab, doc_id) = None /\ get_by_id(db', tab, doc_id) # None)
               => last'.op \in {"insert", "insert_many", "load"}
      ]_vars

\* C3 witness: "a" has just been deleted from a connected table that held two
\* records; the other record is still cached and the remote row of "a" is blank.
C3_Witness ==
    /\ last = [op |-> "delete", id |-> "a"]
    /\ ~db.demo_mode
    /\ Len(Rows(db, TheTab)) = 1
    /\ RowId(Rows(db, TheTab)[1]) = uuid4(1)
    /\ GridLen(TheTab) = 3
    /\ IsBlank(Grid(TheTab)[2])
    /\ Grid(TheTab)[3][1] = uuid4(1)

\* C4: no two records in the same table's cache have the same identifier.
C4_IdentifierUnique ==
    \A tab \in Tabs :
       \A i, j \in 1..Len(Rows(db, tab)) :
          i # j => RowId(Rows(db, tab)[i]) # RowId(Rows(db, tab)[j])

\* C5: in connected mode with every remote write succeeding, every identifier
\* in the row-number index maps to the remote row that holds that identifier.
C5_RowMapAddressesOwnRow ==
    \A tab \in Tabs :
       \A doc_id \in DOMAIN Get(db.row_map, tab, EmptyDict) :
          LET row_num == db.row_map[tab][doc_id]
          IN /\ row_num <= GridLen(tab)
             /\ Grid(tab)[row_num] # <<>>
             /\ Grid(tab)[row_num][1] = doc_id

\* C6: when the remote append of an insert or insert_many fails or is never
\* sent, the inserted identifiers have no entry in the row-number index.
C6_NoRowNumberWithoutAppend ==
    [][\A tab \in Tabs, oc \in RetryOutcomes :
          ~WriteApplied(db, tab, oc) =>
            /\ last'.op = "insert" =>
                 \A row \in InputRows :
                    Insert(tab, row, oc) => RowNum(db', tab, last'.id) = 0
            /\ last'.op = "insert_many" =>
                 \A rows \in Batches :
                    InsertMany(tab, rows, oc) =>
                       \A doc_id \in IdsIn(insert_many(db, sheet, tab, rows, uuid_n, oc).ret) :
                          RowNum(db', tab, doc_id) = 0
      ]_vars

\* row r of a grid, rows past its end being blank
GridRow(grid, r) == IF r <= Len(grid) /\ ~IsBlank(grid[r]) THEN grid[r] ELSE <<>>

GridSpan(tab) == 1..(MaxSheetRows + MaxRows + 1)

\* C7: delete's only remote effect is one blank-row write at the row number
\* mapped to the deleted identifier (none without a mapping); it removes exactly
\* that identifier from the row-number index and leaves the index entries and
\* the remote rows of all other identifiers unchanged.
C7_DeleteFrame ==
    [][\A tab \in Tabs, oc \in RetryOutcomes :
          (last'.op = "delete" /\ Delete(tab, last'.id, oc)) =>
             LET doc_id == last'.id
                 row_num == RowNum(db, tab, doc_id)
                 g0 == Grid(tab)
                 g1 == Get(sheet', tab, <<>>)
             IN /\ DOMAIN sheet' = DOMAIN sheet
                /\ \A r \in GridSpan(tab) :
                      r # row_num => GridRow(g1, r) = GridRow(g0, r)
                /\ row_num # 0 => GridRow(g1, row_num) \in {<<>>, GridRow(g0, row_num)}
                /\ Get(db'.row_map, tab, EmptyDict)
                      = Pop(Get(db.row_map, tab, EmptyDict), doc_id)
                /\ \A r \in GridSpan(tab) :
                      (GridRow(g0, r) # <<>> /\ GridRow(g0, r)[1] # doc_id)
                         => GridRow(g1, r) = GridRow(g0, r)
      ]_vars

\* the reads of one table: find without and with a predicate, find_one,
\* get_by_id and count
Reads(svc, tab) ==
    [all |-> find_all(svc, tab),
     n |-> count_all(svc, tab),
     by_id |-> [doc_id \in DocIds |-> get_by_id(svc, tab, doc_id)],
     by_v |-> [val \in Vals |-> find(svc, tab, Filter("v", "eq", val))],
     one_v |-> [val \in Vals |-> find_one(svc, tab, Filter("v", "eq", val))],
     n_v |-> [val \in Vals |-> count(svc, tab, Filter("v", "eq", val))]]

\* C8: after the same sequence of ensure_tab, insert, insert_many, update and
\* delete from an empty cache, find, find_one, get_by_id and count give the same
\* results in demo mode as in connected mode, whichever remote calls fail.
C8_OfflineEquivalence ==
    \A tab \in Tabs : Reads(db, tab) = Reads(off, tab)

\* C8 witness: both services hold two records, of which the connected one
\* managed to write none to the remote tab that has its header row.
C8_Witness ==
    /\ ~db.demo_mode /\ off.demo_mode
    /\ Len(Rows(off, TheTab)) = 2
    /\ Len(Rows(db, TheTab)) = 2
    /\ Get(db.headers, TheTab, <<>>) = HeaderList
    /\ Grid(TheTab) = <<HeaderList>>

\* the state of the wrapper is within the bounds the backoff promises
C9_Bounds ==
    /\ rt.calls <= 4
    /\ Len(rt.sleeps) <= 3
    /\ Len(rt.sleeps) = rt.attempt
    /\ \A i \in 1..Len(rt.sleeps) : rt.sleeps[i] = 10 * i
    /\ SumSeq(rt.sleeps) + rt.wait <= 60
    /\ rt.status = "returned" =>
          /\ rt.out[1] = "value"
          /\ r_script[rt.out[2] + 1] = "ok"
          /\ \A j \in 1..rt.out[2] : r_script[j] # "ok"
          /\ rt.calls = rt.out[2] + 1

\* C9: one wrapped call invokes func at most 4 times, sleeps 10s, 20s and 30s
\* before the first, second and third retry (at most 60s in all), always
\* terminates, and returns the result of the first attempt that succeeds.
C9_BackoffBounded == []C9_Bounds /\ <>RetryDone(rt)

\* C9 witness: three rate-limited attempts, three sleeps, the fourth call returns.
C9_Witness ==
    /\ rt.status = "returned"
    /\ rt.calls = 4
    /\ rt.sleeps = <<10, 20, 30>>
    /\ rt.out = <<"value", 3>>

\* C10: a failure other than 429 is propagated from the attempt that met it,
\* with no sleep and no further call; a 429 on the attempt after 3 retries is
\* propagated instead of retried; nothing is called after the error is raised.
C10_ErrorsPropagate ==
    [][/\ rt.status # "raised"
       /\ rt.status = "calling" =>
             LET resp == r_script[rt.calls + 1]
             IN (resp \in {"http", "exc"} \/ (resp = "429" /\ Len(rt.sleeps) = 3))
                => /\ rt'.status = "raised"
                   /\ rt'.out = <<resp, rt.attempt>>
                   /\ rt'.calls = rt.calls + 1
                   /\ rt'.sleeps = rt.sleeps
                   /\ rt'.wait = 0
      ]_vars

\* C10 witness: the fourth attempt, made after three retries, was answered 429
\* and the error was raised.
C10_Witness ==
    /\ rt.status = "raised"
    /\ rt.out = <<"429", 3>>
    /\ rt.calls = 4
    /\ rt.sleeps = <<10, 20, 30>>

\* the responses startup got: every one "ok" but a single 429
RateLimitedOnce(seen) ==
    /\ \A i \in 1..Len(seen) : seen[i] \in {"ok", "429"}
    /\ Cardinality({i \in 1..Len(seen) : seen[i] = "429"}) = 1

\* C11: the tab listing of initialize and the full-grid read of _load_tab go
\* through the rate-limit wrapper, so initialize does not fail when the remote
\* store answers one of its calls with a single 429 and every other call with
\* success.
C11_StartupRetriesRateLimit ==
    boot.pc = "raised" => ~RateLimitedOnce(boot.seen)

\* cell j of a grid row, cells past its end being empty
Cell(row, j) == IF j <= Len(row) THEN row[j] ELSE ""

\* C16: after _load_tab of a grid whose row 1 is the header list and whose rows
\* 2..N are data, the cache holds N-1 records in grid order, record i mapping
\* every header to the cell text of grid row i+1 (empty where the row is
\* short); the row-number index holds exactly the non-empty identifiers, each
\* mapped to a grid row that carries it, which is the row of its record when
\* the identifier occurs once.
C16_LoadBuildsCache ==
    \A tab \in Tabs :
       (boot.pc = "done" /\ ~db.demo_mode /\ tab \in DOMAIN sheet /\ sheet[tab] # <<>>) =>
          LET grid == sheet[tab]
              N == Len(grid)
              hdrs == grid[1]
              recs == Rows(db, tab)
              rmap == Get(db.row_map, tab, EmptyDict)
          IN /\ tab \in DOMAIN db.cache
             /\ Len(recs) = N - 1
             /\ db.headers[tab] = hdrs
             /\ \A i \in 1..(N - 1) :
                   /\ DOMAIN recs[i] = Range(hdrs)
                   /\ \A j \in 1..Len(hdrs) : recs[i][hdrs[j]] = Cell(grid[i + 1], j)
             /\ DOMAIN rmap = {Cell(grid[r], 1) : r \in 2..N} \ {""}
             /\ \A doc_id \in DOMAIN rmap :
                   /\ rmap[doc_id] \in 2..N
                   /\ Cell(grid[rmap[doc_id]], 1) = doc_id
             /\ \A r \in 2..N :
                   (/\ Cell(grid[r], 1) # ""
                    /\ \A q \in 2..N : Cell(grid[q], 1) = Cell(grid[r], 1) => q = r)
                      => rmap[Cell(grid[r], 1)] = r

\* C16 witness: startup has loaded a grid of a header row, a blank row and a
\* short row; the cache holds the two records and the index sends "b" to row 3.
C16_Witness ==
    /\ boot.pc = "done"
    /\ ~db.demo_mode
    /\ TheTab \in DOMAIN sheet
    /\ sheet[TheTab] = <<HeaderList, <<>>, <<"b">>>>
    /\ Len(Rows(db, TheTab)) = 2
    /\ Rows(db, TheTab)[2] = [_id |-> "b", v |-> "", w |-> ""]
    /\ db.row_map[TheTab] = Put(EmptyDict, "b", 3)

\* what each path needs in order to connect
TokenPathOk(env) == env.token \in {"valid", "refresh_ok"} /\ env.build_token

SaPathOk(env) == env.sa = "ok_valid" /\ env.build_sa

KeyPathOk(env) == env.api_key /\ env.build_key

\* the highest-priority path that can succeed
BestPath(env) ==
    IF ~env.has_id \/ ~env.google THEN "none"
    ELSE IF TokenPathOk(env) THEN "token"
    ELSE IF SaPathOk(env) THEN "sa"
    ELSE IF KeyPathOk(env) THEN "api_key"
    ELSE "none"

\* C20: _init_google connects with the highest-priority path that can succeed
\* (saved token, then service account, then API key), trying a lower path
\* whenever a higher one fails at any step; API-key mode is set exactly when
\* the API key is the path used, demo mode exactly when no path succeeds or the
\* spreadsheet id or the client library is missing.
C20_CredentialPriority ==
    boot.pc \in {"connected", "done"} =>
       /\ boot.used = BestPath(boot.env)
       /\ boot.api_key_mode = (boot.used = "api_key")
       /\ db.demo_mode = (BestPath(boot.env) = "none")

\* the handler has run insert to its end
Inserted(h) == hs[h].op = "insert" /\ hs[h].pc = "done"

\* C12: when two handlers insert records with different identifiers into the
\* same table at the same time, then however the event loop interleaves them,
\* once both inserts have returned both records are in the table's cache and
\* the two identifiers have different row numbers in the row-number index.
C12_ConcurrentInserts ==
    \A h, g \in Handlers :
       (h # g /\ Inserted(h) /\ Inserted(g) /\ hs[h].tab = hs[g].tab
          /\ RowId(hs[h].row) # RowId(hs[g].row)) =>
          LET tab == hs[h].tab
              rows == Rows(db, tab)
          IN /\ \E i \in 1..Len(rows) : rows[i] = hs[h].row
             /\ \E i \in 1..Len(rows) : rows[i] = hs[g].row
             /\ RowNum(db, tab, RowId(hs[h].row)) # 0
             /\ RowNum(db, tab, RowId(hs[g].row)) # 0
             /\ RowNum(db, tab, RowId(hs[h].row)) # RowNum(db, tab, RowId(hs[g].row))

\* C12 witness: both handlers were given an insert before either ran, the
\* first one met a 429 and slept on the way, and both have returned; the two
\* records are cached and both rows are in the remote tab.
C12_Witness ==
    /\ ~db.demo_mode
    /\ Inserted("h1") /\ Inserted("h2")
    /\ RowId(hs["h1"].row) # RowId(hs["h2"].row)
    /\ Len(hs["h1"].rt.sleeps) = 1
    /\ Len(Rows(db, TheTab)) = 2
    /\ GridLen(TheTab) = 3

\* C13: while one handler's mutation is inside its remote mirror call or asleep
\* in rate-limit backoff, a read another handler has been given can run.
C13_ReadsNotBlocked ==
    \A h, g \in Handlers :
       (h # g /\ hs[h].pc \in {"remote", "sleeping"} /\ hs[g].pc = "read") => CanRun(g)

\* header lists ensure_tab may be called with
HeaderLists == {HeaderList, <<"_id", "v">>}

\* C14: in every reachable state and in both modes, a second ensure_tab with
\* the same headers after one that returned leaves the record list, the header
\* list and the row-number index as the first call left them and does not
\* raise; ensure_tab on a table that is cached with non-empty headers changes
\* nothing, in the cache or remotely, whatever headers it is given.
C14_EnsureTabIdempotent ==
    \A tab \in Tabs :
       /\ \A oc1, oc2, oc3, oc4 \in RetryOutcomes :
             LET r1 == ensure_tab(db, sheet, tab, HeaderList, oc1, oc2)
                 r2 == ensure_tab(r1.svc, r1.sheet, tab, HeaderList, oc3, oc4)
             IN ~r1.raised => (~r2.raised /\ r2.svc = r1.svc)
       /\ (tab \in DOMAIN db.cache /\ Get(db.headers, tab, <<>>) # <<>>) =>
             \A hdrs \in HeaderLists, oc1, oc2 \in RetryOutcomes :
                LET r == ensure_tab(db, sheet, tab, hdrs, oc1, oc2)
                IN ~r.raised /\ r.svc = db /\ r.sheet = sheet

\* C14 witness: ensure_tab has just run on a connected table that already held
\* a record (inserted before the table had headers); the record is still
\* cached and the table now has its headers.
C14_Witness ==
    /\ last.op = "ensure_tab"
    /\ ~db.demo_mode
    /\ Get(db.headers, TheTab, <<>>) = HeaderList
    /\ Len(Rows(db, TheTab)) >= 1
    /\ RowNum(db, TheTab, "a") = 2

\* C15: the first insert or insert_many to a table name the cache has not seen
\* leaves the table in the cache with a non-empty header list whose first
\* column is "_id".
C15_FirstWriteSetsHeaders ==
    [][\A tab \in Tabs :
          (/\ tab \notin DOMAIN db.cache
           /\ tab \in DOMAIN db'.cache
           /\ last'.op \in {"insert", "insert_many"})
             => /\ Get(db'.headers, tab, <<>>) # <<>>
                /\ db'.headers[tab][1] = "_id"
      ]_vars

\* C17: insert_many of a non-empty batch on a connected service issues exactly
\* one values.append call, which carries the rows of all records in batch
\* order; the records are appended to the cache in batch order and (their
\* identifiers being distinct) get consecutive row numbers.
C17_InsertManyOneAppend ==
    [][\A tab \in Tabs, oc \in RetryOutcomes :
          (last'.op = "insert_many" /\ ~db.demo_mode) =>
             \A rows \in Batches \ {<<>>} :
                InsertMany(tab, rows, oc) =>
                   LET r == insert_many(db, sheet, tab, rows, uuid_n, oc)
                       n0 == Len(Rows(db, tab))
                   IN /\ Len(r.appends) = 1
                      /\ Len(r.appends[1]) = Len(rows)
                      /\ \A i \in 1..Len(rows) :
                            r.appends[1][i] = RowValues(r.ret[i], HeaderList)
                      /\ Rows(db', tab) = Rows(db, tab) \o r.ret
                      /\ (\A i, j \in 1..Len(rows) : i # j => RowId(r.ret[i]) # RowId(r.ret[j]))
                            => \A i \in 1..Len(rows) :
                                  RowNum(db', tab, RowId(r.ret[i])) = n0 + i + 1
      ]_vars

ReadOps == {"find", "find_one", "get_by_id", "count"}

\* C18: mutating in place the list find returned, with or without a predicate,
\* leaves the cache's record list (and the rest of the service) as it was; the
\* cache changes only through insert, insert_many, update, delete, load and
\* ensure_tab.
C18_FindReturnsCopy ==
    [][/\ last'.op = "mutate_returned" => db' = db
       /\ db'.cache # db.cache =>
             last'.op \in {"insert", "insert_many", "update", "delete", "load", "ensure_tab"}
      ]_vars

\* C18 witness: the caller has popped every element off the list that find
\* without a predicate returned for a table that holds a record.
C18_Witness ==
    /\ last.op = "mutate_returned"
    /\ held.op = "find" /\ held.arg = None /\ held.tab = TheTab
    /\ held.ret.items = <<>>
    /\ Len(Rows(db, TheTab)) >= 1

\* the value a read returns when nothing matches
Nothing(op, arg) ==
    IF op = "find" THEN <<>>
    ELSE IF op = "count" THEN 0
    ELSE None

\* what the caller holds, find's list taken by its elements
HeldValue == IF held.op = "find" THEN held.ret.items ELSE held.ret

\* C19: find, find_one, get_by_id and count on a table name that was never
\* loaded or created, and get_by_id of an identifier that is not in the table,
\* do not raise and return an empty list, None, None and 0; no read changes
\* the cache, the headers or the row-number index (the table is not created).
C19_ReadsOfAbsent ==
    [][last'.op \in ReadOps =>
          /\ db' = db
          /\ ~held'.raised
          /\ held'.tab \notin DOMAIN db.cache =>
                /\ held'.tab \notin DOMAIN db'.cache
                /\ held'.tab \notin DOMAIN db'.headers
                /\ held'.tab \notin DOMAIN db'.row_map
                /\ IF held'.op = "find" THEN held'.ret.items = <<>>
                   ELSE held'.ret = Nothing(held'.op, held'.arg)
          /\ (held'.op = "get_by_id" /\ held'.arg \notin IdsIn(Rows(db, held'.tab))) =>
                held'.ret = None
      ]_vars

\* C19 witness: get_by_id of an identifier that is not among the records of a
\* table that holds one has returned None.
C19_Witness ==
    /\ last.op = "get_by_id"
    /\ held.tab = TheTab
    /\ Len(Rows(db, TheTab)) >= 1
    /\ held.arg \notin IdsIn(Rows(db, TheTab))
    /\ held.ret = None

\* C19 second case reached: count on the table that was never created returned 0
C19_WitnessUnseen ==
    /\ last.op = "count"
    /\ held.tab = "_u"
    /\ held.ret = 0
    /\ "_u" \notin DOMAIN db.cache

\* C21: whenever an entity has been written to a row with _to_row and the row
\* read back with _from_row, for every field shape and every value of it (the
\* empty string, None and the empty list among them), _from_row returns, and
\* returns an entity equal to the one written.
C21_RoundTrip ==
    (doc.pc = "from_row" /\ doc.entity # NoEntity) =>
        (~doc.out.raised /\ doc.out.v = doc.entity)

\* C22: _from_row never raises: for every class (whichever fields it requires)
\* and every row of cell texts, once _from_row has run it has returned an entity.
C22_FromRowNeverRaises ==
    doc.pc = "from_row" => ~doc.out.raised

\* a decimal literal: an optional sign, digits, optionally a point and digits
IsDecimalText(s) ==
    LET u == IF s # <<>> /\ s[1] = "-" THEN Tail(s) ELSE s
    IN \/ AllDigits(u)
       \/ \E i \in 2..(Len(u) - 1) :
             u[i] = "." /\ AllDigits(SubSeq(u, 1, i - 1)) /\ AllDigits(SubSeq(u, i + 1, Len(u)))

\* C23: _deserialize_value returns, for every field shape and every cell text,
\* what the fallback table prescribes: None for an empty cell; [] for a list
\* field whose text is not JSON; None for a nested-object field whose text is
\* not JSON; for a boolean field True exactly when the lower-cased text is
\* true, 1 or yes; 0 or 0.0 for an integer or float field whose text is no
\* number; the raw text for an enum field whose text is not a declared value.
C23_FallbackTable ==
    doc.pc = "cell" =>
        LET text == doc.row["f"]
            t == doc.cls.ann.t
            v == doc.out.v
        IN /\ ~doc.out.raised
           /\ text = <<>> => v = PyNone
           /\ (text # <<>> /\ t = "list" /\ ~JsonLoads(text).ok) => v = PyList(<<>>)
           /\ (text # <<>> /\ t = "model" /\ ~JsonLoads(text).ok) => v = PyNone
           /\ (text # <<>> /\ t = "bool") =>
                 v = PyBool(Lower(text) \in {<<"t", "r", "u", "e">>, <<"1">>, <<"y", "e", "s">>})
           /\ (text # <<>> /\ t = "int" /\ ~IsDecimalText(text)) => v = PyInt(0)
           /\ (text # <<>> /\ t = "float" /\ ~IsDecimalText(text)
                  /\ text # <<"i", "n", "f">>) => v = PyFloat(Finite(0))
           /\ (text # <<>> /\ t = "enum" /\ text \notin EnumValues) => v = PyStr(text)

\* the filters among the arguments of a call
IsFilter(arg) == arg.kind \in {"expr", "dict", "callable"}

\* C24: once find or find_one has applied the predicate it built to a record,
\* the record is accepted exactly when every argument that is an expression
\* object, a dict query or a predicate function accepts it; a call with at
\* least one such argument has a predicate, which holds every one of them.
C24_FiltersCombinedWithAnd ==
    doc.pc = "applied" =>
        LET supplied == {i \in 1..Len(doc.args) : IsFilter(doc.args[i])}
        IN /\ doc.accepted <=> \A i \in supplied : CallFilter(doc.args[i], doc.row)
           /\ supplied # {} =>
                 /\ doc.filter_fn # None
                 /\ Len(doc.filter_fn.filters) = Cardinality(supplied)
                 /\ \A i \in supplied :
                       \E j \in 1..Len(doc.filter_fn.filters) :
                          doc.filter_fn.filters[j] = doc.args[i]

\* C24 witness: a call with two filters of different kinds, of which the
\* record passes the first and fails the second, has rejected the record.
C24_Witness ==
    /\ doc.pc = "applied"
    /\ Len(doc.args) = 2
    /\ doc.args[1].kind = "expr" /\ doc.args[2].kind = "callable"
    /\ CallFilter(doc.args[1], doc.row)
    /\ ~CallFilter(doc.args[2], doc.row)
    /\ ~doc.accepted

\* the one filter of a call with a single argument on the column v, as
\* [form, op, value]: form "expr" for a FilterExpr, "dict" for a dict query
TheFilter ==
    LET a == doc.args[1]
    IN IF a.kind = "expr" THEN [form |-> "expr", op |-> a.op, value |-> a.value]
       ELSE LET cond == a.items[1][2]
            IN IF "t" \in DOMAIN cond /\ cond.t = "ops"
               THEN [form |-> "dict",
                     op |-> CASE cond.items[1][1] = "$ne" -> "ne"
                              [] cond.items[1][1] = "$lt" -> "lt"
                              [] cond.items[1][1] = "$gt" -> "gt"
                              [] cond.items[1][1] = "$lte" -> "lte"
                              [] cond.items[1][1] = "$gte" -> "gte",
                     value |-> cond.items[1][2]]
               ELSE [form |-> "dict", op |-> "eq", value |-> cond]

\* find or find_one has applied a single filter on v to the record
AppliedOne == doc.pc = "applied" /\ doc.args \in {<<f>> : f \in FiltersOnV}

TheCell == Get(doc.row, "v", <<>>)

\* texts a sheet holds for a boolean
StoredBooleans ==
    {<<"T", "r", "u", "e">>, <<"t", "r", "u", "e">>, <<"1">>,
     <<"F", "a", "l", "s", "e">>, <<"f", "a", "l", "s", "e">>, <<"0">>}

\* C25: a filter is_active = true, in either form, accepts a record whose cell
\* holds a stored representation of a boolean exactly when that text
\* represents true (it is read back as True), whichever representation it is.
C25_BooleanQuery ==
    (AppliedOne /\ TheFilter.op = "eq" /\ TheFilter.value = PyBool(TRUE)
        /\ TheCell \in StoredBooleans) =>
        (doc.accepted <=> _deserialize_value(TheCell, Ann("bool", FALSE)).v = PyBool(TRUE))

\* equality as the specification has it: numeric when both sides parse
EqualAsNumbersOrText(cell, value) ==
    IF ParseFloat(cell).k # "error" /\ Float(value).k # "error"
    THEN ParseFloat(cell) = Float(value)
    ELSE cell = Str(value)

\* C26: an equality or inequality filter with a value that is not None, in
\* either form, accepts a record exactly when cell and value are equal
\* (unequal for inequality), compared as numbers when both parse as numbers
\* and as strings otherwise.
C26_EqualityNumericWhenBothParse ==
    (AppliedOne /\ TheFilter.op \in {"eq", "ne"} /\ TheFilter.value # PyNone) =>
        (doc.accepted <=>
            IF TheFilter.op = "eq" THEN EqualAsNumbersOrText(TheCell, TheFilter.value)
            ELSE ~EqualAsNumbersOrText(TheCell, TheFilter.value))

\* ordering as the specification has it: numeric when both sides parse,
\* by code point otherwise
OrderAsNumbersOrText(op, cell, value) ==
    IF ParseFloat(cell).k # "error" /\ Float(value).k # "error"
    THEN NumCompare(op, ParseFloat(cell), Float(value))
    ELSE StrCompare(op, cell, Str(value))

\* C27: an ordering filter with a value that is not None accepts a record
\* exactly when the cell stands in that order to the value, numerically when
\* both parse as numbers and as strings otherwise, in the expression form and
\* in the dict form alike.
C27_OrderingBothForms ==
    (AppliedOne /\ TheFilter.op \in {"lt", "gt", "lte", "gte"} /\ TheFilter.value # PyNone) =>
        (doc.accepted <=> OrderAsNumbersOrText(TheFilter.op, TheCell, TheFilter.value))

\* C28: a filter whose value is None, whatever its operator and form, accepts
\* a record exactly when the record's cell is empty or absent (for the
\* inequality: exactly when it is not); the text None is a cell like any other.
C28_NullMatchesEmptyOnly ==
    (AppliedOne /\ TheFilter.op # "startswith" /\ TheFilter.value = PyNone) =>
        (doc.accepted <=> IF TheFilter.op = "ne" THEN TheCell # <<>> ELSE TheCell = <<>>)

\* the argument a builder was called with
ArgOf(name) == doc.calls[CHOOSE i \in 1..Len(doc.calls) : doc.calls[i][1] = name][2]

\* the cell an entity of the cursor's class was read from
CellOfEntity(e) == IF e.f = PyNone THEN <<>> ELSE e.f.s

\* a <= b as the specification orders two cells: numerically when both parse
\* as numbers, as strings otherwise
CellLe(a, b) ==
    IF ParseFloat(a).k # "error" /\ ParseFloat(b).k # "error"
    THEN ~NumLt(ParseFloat(b), ParseFloat(a))
    ELSE ~StrLt(b, a)

\* the position in the matched records of the record an entity was read from
PositionOf(e) == CHOOSE i \in 1..Len(doc.q.results) : doc.q.results[i]["_id"] = e.id.s

\* C29: to_list on a cursor with sort(field), and neither skip nor limit,
\* returns every matched record once, ordered by the cell of the field
\* (ascending, or descending for "-field"), numerically when the cells parse as
\* numbers and as strings otherwise, records with equal keys in their original
\* relative order in both directions.
C29_SortNumericStable ==
    (doc.pc = "listed" /\ Called("sort") /\ ~Called("skip") /\ ~Called("limit")) =>
        LET out == doc.out.items
            desc == StartsWith(ArgOf("sort"), <<"-">>)
        IN /\ ~doc.out.raised
           /\ Len(out) = Len(doc.q.results)
           /\ \A i \in 1..Len(doc.q.results) :
                 \E j \in 1..Len(out) : out[j].id.s = doc.q.results[i]["_id"]
           /\ \A i, j \in 1..Len(out) :
                 i < j =>
                    LET a == CellOfEntity(out[i])
                        b == CellOfEntity(out[j])
                    IN IF CellLe(a, b) /\ CellLe(b, a)
                       THEN PositionOf(out[i]) < PositionOf(out[j])
                       ELSE IF desc THEN CellLe(b, a) ELSE CellLe(a, b)

\* the 0-based positions s to s + l - 1 of a list
Slice(list, s, l) == SubSeq(list, s + 1, Min(s + l, Len(list)))

\* to_list of the matched records with the cursor's sort and nothing else
FullySorted ==
    LET q0 == SheetQuery(doc.q.model_class, doc.q.results)
    IN to_list(IF Called("sort") THEN sort(q0, ArgOf("sort")) ELSE q0)

\* C30: to_list returns the records at the 0-based positions s to s + l - 1 of
\* the fully sorted list of the matched records, s the argument of skip (0
\* without skip) and l that of limit (the rest of the list without limit),
\* whatever the order in which sort, skip and limit were called.
C30_SkipLimitAfterSort ==
    doc.pc = "listed" =>
        LET s == IF Called("skip") THEN ArgOf("skip") ELSE 0
            l == IF Called("limit") THEN ArgOf("limit") ELSE Len(doc.q.results)
        IN /\ ~doc.out.raised
           /\ doc.out.items = Slice(FullySorted.items, s, l)

\* the call that has just returned is an insert or an insert_many
Inserting == last'.op \in {"insert", "insert_many"} /\ last' # last

Matched == {i \in 1..Len(doc.table) : Accepts(build_filter_from_args(doc.args), doc.table[i])}

\* C32: count on a cursor returns the number of records matched by the
\* predicate the cursor was built with, independent of any skip, limit or sort
\* set on the cursor before or after.
C32_CountIgnoresChain ==
    doc.out # NoCount => doc.out = Cardinality(Matched)

\* count has just returned 2 on a cursor that skips one record, keeps at most
\* one and is sorted, over a table of which the filter left one record out
C32_Witness ==
    /\ doc.calls # <<>>
    /\ doc.calls[Len(doc.calls)][1] = "count"
    /\ Called("skip") /\ Called("limit") /\ Called("sort")
    /\ doc.q.skip_n = 1
    /\ doc.q.limit_n = 1
    /\ doc.out = 2
    /\ Len(doc.table) = MaxCountRows

\* two lists of records agree: same length and, record by record, the same
\* text under every header
SameRecords(hdrs, a, b) ==
    /\ Len(a) = Len(b)
    /\ \A i \in 1..Len(a) :
          \A j \in 1..Len(hdrs) : Get(a[i], hdrs[j], "") = Get(b[i], hdrs[j], "")

\* C33: in connected mode with every remote write succeeding, after any
\* sequence of insert, insert_many, update and delete on a table that has
\* headers, reloading the table from the remote store yields the same list of
\* records (same identifiers, same values for the header columns, same order)
\* as the cache held before the reload; a deleted record's blanked row does not
\* come back as a record with an empty identifier.
C33_RestartConsistency ==
    [][\A tab \in Tabs :
          (last'.op = "load" /\ Load(tab, "ok")) =>
             /\ SameRecords(Get(db.headers, tab, <<>>), Rows(db', tab), Rows(db, tab))
             /\ \A i \in 1..Len(Rows(db', tab)) : RowId(Rows(db', tab)[i]) # ""
      ]_vars

\* C34: the row-number index of a table is injective over the cached records:
\* after any sequence of load, insert, insert_many, update and delete (in
\* connected or demo mode), no two distinct identifiers present in the table's
\* cache are mapped to the same row number.
C34_RowMapInjective ==
    \A tab \in Tabs :
       \A a, b \in IdsIn(Rows(db, tab)) \cap DOMAIN Get(db.row_map, tab, EmptyDict) :
          a # b => db.row_map[tab][a] # db.row_map[tab][b]

\* C35: to_list on a sorted cursor completes without error for every content
\* of the sort column, including a column that mixes numeric cells with
\* non-numeric or empty cells.
C35_SortedToListCompletes ==
    (doc.pc = "listed" /\ Called("sort")) => ~doc.out.raised

\* C36: save() on an entity is an upsert: if a record with the entity's
\* identifier is in the table's cache it is replaced in place, otherwise the
\* record is appended (with a generated identifier when the entity has none);
\* after any sequence of save() calls no two records of the table share an
\* identifier, and save() on an entity that was saved and not changed since
\* leaves the cache as it is.
C36_SaveIsUpsert ==
    [][\A tab \in Tabs :
          (doc.pc = "entity" /\ doc'.saved) =>
             LET rows == Rows(db, tab)
                 self == doc'.entity
                 i == FirstIndex(rows, self.id, 1)
             IN /\ self.id # ""
                /\ doc.entity.id # "" => self = doc.entity
                /\ doc.entity.id = "" =>
                      self.id \notin IdsIn(rows) /\ self = [doc.entity EXCEPT !.id = self.id]
                /\ Rows(db', tab) = IF i # 0 THEN [rows EXCEPT ![i] = RowOf(self)]
                                    ELSE Append(rows, RowOf(self))
                /\ \A j, k \in 1..Len(Rows(db', tab)) :
                      j # k => RowId(Rows(db', tab)[j]) # RowId(Rows(db', tab)[k])
                /\ doc.saved => Rows(db', tab) = rows
      ]_vars

\* the table holds MaxSaved records, one of them with a generated identifier,
\* and the last save replaced the first record by the entity in hand
C36_Witness ==
    /\ doc.pc = "entity" /\ doc.saved
    /\ last.op = "save" /\ last.existing
    /\ Len(Rows(db, TheTab)) = MaxSaved
    /\ uuid_n >= 1
    /\ Rows(db, TheTab)[1] = RowOf(doc.entity)
    /\ doc.entity.v = "y"

\* the class a row was saved through: the one whose columns it has
SavedThrough(row) == {cls \in SavedTypes : DOMAIN row = {"_id"} \cup FieldsOf(cls)}

\* C37: every entity type reads and writes its own table: the mapping from
\* entity type to table name is injective and non-empty, so a record saved
\* through one entity type is never returned by find, find_one or get on a
\* different entity type.
C37_OwnTable ==
    /\ \A c1, c2 \in EntityTypes : c1 # c2 => _get_tab(c1) # _get_tab(c2)
    /\ \A cls \in EntityTypes : _get_tab(cls) # ""
    /\ doc.pc = "read" =>
          \A i \in 1..Len(doc.out.items) : SavedThrough(doc.out.items[i].row) = {doc.cls}


\* the BOM index rows that are ALLOCATED with a plan number
AllocatedTo(index, dplan_no) ==
    {i \in 2..Len(index) : /\ BomCell(index[i], 11) = "ALLOCATED"
                           /\ BomCell(index[i], 12) = dplan_no}

\* C38: in connected mode, after any sequence of save_bom_full (create or
\* edit), allocate_boms and unallocate_boms, every dyeing plan row's stored
\* BOM count and total quantity equal the number and the summed plan quantity
\* of the BOM index rows currently ALLOCATED with that plan number, and a BOM
\* index row has status ALLOCATED exactly when its plan number is non-empty.
C38_AllocationBookkeeping ==
    LET index == _get_values(sheet, "BOM_INDEX")
        plans == load_dplans(sheet)
    IN /\ \A k \in 1..Len(plans) :
             /\ plans[k].bom_count =
                   Cardinality(AllocatedTo(index, plans[k].dplan_no))
             /\ plans[k].total_qty =
                   TotalQty(index, AllocatedTo(index, plans[k].dplan_no), 2)
       /\ \A i \in 2..Len(index) :
             BomCell(index[i], 11) = "ALLOCATED" <=> BomCell(index[i], 12) # ""

\* C39: in connected mode, after save_bom_full for a uid, load_bom_by_uid of
\* that uid returns exactly the combos and BOM lines of the most recent save,
\* in the saved order (the lines of an earlier save are replaced, not
\* accumulated), and the uid appears in exactly one BOM index row.
C39_SaveThenLoad ==
    /\ (last.op = "load_bom_by_uid" /\ last.uid \in DOMAIN held) =>
          /\ last.bom.found
          /\ last.bom.combos = held[last.uid]
    /\ \A uid \in DOMAIN held :
          Cardinality(IndexHits(_get_values(sheet, "BOM_INDEX"), {uid})) = 1

=============================================================================
